---------------------------- MODULE Spec2Model ----------------------------
(***************************************************************************)
(* pulsar-topic-deduplicator: the deduplication engine                     *)
(* (src/deduplication.ts, src/cacheBuilding.ts) and the process fault      *)
(* boundary around it (src/index.ts).                                      *)
(*                                                                         *)
(* Strings and byte buffers are sequences of one-character strings.  The   *)
(* BLAKE2b-512 hash is idealised as collision free: a digest is the hex    *)
(* rendering of the hashed bytes themselves.                               *)
(***************************************************************************)
EXTENDS Integers, Sequences, FiniteSets, TLC

(***************************************************************************)
(* Bounds of the model.                                                    *)
(***************************************************************************)
\* source messages published to the source subscription
MaxMsgs == 3
\* clock steps that pass while the steady-state loop runs
MaxTicks == 2
\* milliseconds of one clock step
TickMs == 3000
\* Date.now() when the first run starts
Epoch == 10000
\* broker failures (send, acknowledge, receive, seek, read) injected
MaxFaults == 1
\* read timeouts of the cache reader injected while messages are left to read
MaxTimeouts == 3
\* invocations of exitGracefully followed in one run
MaxExits == 2
\* how late the timer of a backoff or of a read timeout may fire, in
\* milliseconds
LateMs == 60000
\* the digests in the origin of a historical message
MaxOrigin == 2

(***************************************************************************)
(* Configuration (environment variables read by getConfig).                *)
(***************************************************************************)
deduplicationWindowInSeconds == 4
cacheWindowInSeconds == 2
\* DEDUPLICATION_IGNORED_PROPERTIES = ["c"]
ignoredProperties == { <<"c">> }

(***************************************************************************)
(* Characters.                                                             *)
(***************************************************************************)
Quote == "\""
Backslash == "\\"

\* UTF-16 code units of the characters in use
CharCode(c) ==
  CASE c = Quote -> 34
    [] c = "," -> 44
    [] c = ":" -> 58
    [] c = "[" -> 91
    [] c = Backslash -> 92
    [] c = "]" -> 93
    [] c = "a" -> 97
    [] c = "b" -> 98
    [] c = "c" -> 99
    [] c = "f" -> 102
    [] c = "g" -> 103
    [] c = "i" -> 105
    [] c = "n" -> 110
    [] c = "o" -> 111
    [] c = "q" -> 113
    [] c = "r" -> 114
    [] c = "{" -> 123
    [] c = "}" -> 125
    [] OTHER -> 0

\* Buffer.toString("hex") of one byte
HexByte(c) ==
  CASE c = Quote -> "22"
    [] c = "," -> "2c"
    [] c = ":" -> "3a"
    [] c = "[" -> "5b"
    [] c = Backslash -> "5c"
    [] c = "]" -> "5d"
    [] c = "a" -> "61"
    [] c = "b" -> "62"
    [] c = "c" -> "63"
    [] c = "f" -> "66"
    [] c = "g" -> "67"
    [] c = "i" -> "69"
    [] c = "n" -> "6e"
    [] c = "o" -> "6f"
    [] c = "q" -> "71"
    [] c = "r" -> "72"
    [] c = "{" -> "7b"
    [] c = "}" -> "7d"
    [] OTHER -> "00"

RECURSIVE Concat(_)
\* the concatenation of a sequence of sequences
Concat(ss) ==
  IF ss = <<>> THEN <<>> ELSE Head(ss) \o Concat(Tail(ss))

RECURSIVE Join(_, _)
\* Array.prototype.join
Join(ss, sep) ==
  IF ss = <<>> THEN <<>>
  ELSE IF Len(ss) = 1 THEN ss[1]
  ELSE ss[1] \o sep \o Join(Tail(ss), sep)

RECURSIVE StrLess(_, _)
\* a < b on JavaScript strings: code unit order
StrLess(a, b) ==
  IF b = <<>> THEN FALSE
  ELSE IF a = <<>> THEN TRUE
  ELSE IF CharCode(Head(a)) # CharCode(Head(b))
       THEN CharCode(Head(a)) < CharCode(Head(b))
  ELSE StrLess(Tail(a), Tail(b))

RECURSIVE insertKey(_, _)
\* the inner loop of the insertion sort: key moves down past every greater key
insertKey(sorted, key) ==
  IF sorted = <<>> THEN <<key>>
  ELSE IF StrLess(key, sorted[Len(sorted)])
       THEN Append(insertKey(SubSeq(sorted, 1, Len(sorted) - 1), key),
                   sorted[Len(sorted)])
  ELSE Append(sorted, key)

\* mutant: the keys are serialised in the order of insertion
sortNot(keys) == keys

RECURSIVE sort(_)
\* safe-stable-stringify sorts the keys of an object by insertion sort
sort(keys) ==
  IF keys = <<>> THEN <<>>
  ELSE insertKey(sort(SubSeq(keys, 1, Len(keys) - 1)), keys[Len(keys)])

(***************************************************************************)
(* JSON.                                                                   *)
(***************************************************************************)
\* a JSON string literal: quotes and backslashes are escaped
QuoteString(s) ==
  <<Quote>> \o
  Concat([i \in 1..Len(s) |->
            IF s[i] \in {Quote, Backslash} THEN <<Backslash, s[i]>> ELSE <<s[i]>>])
  \o <<Quote>>

\* mutant: the strings of the array are written without quotes
JSONstringifyBare(arr) == <<"[">> \o Join(arr, <<",">>) \o <<"]">>

\* JSON.stringify of an array of strings
JSONstringify(arr) ==
  <<"[">> \o Join([i \in 1..Len(arr) |-> QuoteString(arr[i])], <<",">>) \o <<"]">>

\* safe-stable-stringify of an object whose values are strings, given as its
\* entries in the order of insertion: the keys are sorted
stringify(entries) ==
  LET keys == sort([i \in 1..Len(entries) |-> entries[i].key])
      valueOf(key) == (CHOOSE e \in {entries[i] : i \in 1..Len(entries)} :
                         e.key = key).value
  IN  <<"{">> \o
      Join([i \in 1..Len(keys) |->
              QuoteString(keys[i]) \o <<":">> \o QuoteString(valueOf(keys[i]))],
           <<",">>)
      \o <<"}">>

RECURSIVE ScanString(_, _, _)
\* the string literal of text t whose opening quote is at i - 1
ScanString(t, i, acc) ==
  IF i > Len(t) THEN [ok |-> FALSE, val |-> <<>>, next |-> i]
  ELSE IF t[i] = Quote THEN [ok |-> TRUE, val |-> acc, next |-> i + 1]
  ELSE IF t[i] = Backslash
       THEN IF i + 1 <= Len(t) /\ t[i + 1] \in {Quote, Backslash}
            THEN ScanString(t, i + 2, Append(acc, t[i + 1]))
            ELSE [ok |-> FALSE, val |-> <<>>, next |-> i]
  ELSE ScanString(t, i + 1, Append(acc, t[i]))

RECURSIVE ParseValue(_, _)
RECURSIVE ParseElements(_, _, _)
\* the elements of an array of text t, the next of them at i
ParseElements(t, i, acc) ==
  LET v == ParseValue(t, i) IN
  IF ~v.ok \/ v.next > Len(t)
  THEN [ok |-> FALSE, kind |-> "invalid", val |-> <<>>, elems |-> <<>>, next |-> i]
  ELSE LET e == [kind |-> v.kind, val |-> v.val] IN
       IF t[v.next] = "]"
       THEN [ok |-> TRUE, kind |-> "array", val |-> <<>>,
             elems |-> Append(acc, e), next |-> v.next + 1]
       ELSE IF t[v.next] = ","
       THEN ParseElements(t, v.next + 1, Append(acc, e))
       ELSE [ok |-> FALSE, kind |-> "invalid", val |-> <<>>, elems |-> <<>>, next |-> i]

\* the JSON value of text t that starts at i: a string, an array, or the
\* empty object
ParseValue(t, i) ==
  IF i > Len(t)
  THEN [ok |-> FALSE, kind |-> "invalid", val |-> <<>>, elems |-> <<>>, next |-> i]
  ELSE IF t[i] = Quote
  THEN LET s == ScanString(t, i + 1, <<>>) IN
       [ok |-> s.ok, kind |-> "string", val |-> s.val, elems |-> <<>>, next |-> s.next]
  ELSE IF t[i] = "{" /\ i + 1 <= Len(t) /\ t[i + 1] = "}"
  THEN [ok |-> TRUE, kind |-> "object", val |-> <<>>, elems |-> <<>>, next |-> i + 2]
  ELSE IF t[i] = "["
  THEN IF i + 1 <= Len(t) /\ t[i + 1] = "]"
       THEN [ok |-> TRUE, kind |-> "array", val |-> <<>>, elems |-> <<>>, next |-> i + 2]
       ELSE ParseElements(t, i + 1, <<>>)
  ELSE [ok |-> FALSE, kind |-> "invalid", val |-> <<>>, elems |-> <<>>, next |-> i]

\* JSON.parse: ok is FALSE where it throws
JSONparse(t) ==
  LET v == ParseValue(t, 1) IN
  IF v.ok /\ v.next = Len(t) + 1 THEN v
  ELSE [ok |-> FALSE, kind |-> "invalid", val |-> <<>>, elems |-> <<>>, next |-> 1]

(***************************************************************************)
(* Messages.  A message is a record of data (bytes), properties (a         *)
(* function from keys to values), eventTimestamp and publishTimestamp; a   *)
(* source message also records the order in which the keys of its          *)
(* properties object were inserted (order).                                *)
(***************************************************************************)
propertyName == <<"o", "r", "i", "g", "i", "n">>

\* mutant: the non-empty strings of an array are kept, whatever its other
\* elements
getDigestsLenient(message) ==
  LET properties == message.properties IN
  IF propertyName \notin DOMAIN properties THEN <<>>
  ELSE LET digests == JSONparse(properties[propertyName]) IN
       IF ~digests.ok \/ digests.kind # "array" THEN <<>>
       ELSE LET good == SelectSeq(digests.elems,
                                  LAMBDA e : e.kind = "string" /\ e.val # <<>>)
            IN  [i \in 1..Len(good) |-> good[i].val]

\* mutant: no digest is read from a historical message
getDigestsNone(message) == <<>>

\* src/cacheBuilding.ts getDigests: the digests a destination message records
getDigests(message) ==
  LET properties == message.properties IN
  IF propertyName \notin DOMAIN properties THEN <<>>
  ELSE LET digests == JSONparse(properties[propertyName]) IN
       IF ~digests.ok THEN <<>>
       ELSE IF ~(digests.kind = "array" /\
                 \A i \in 1..Len(digests.elems) :
                    digests.elems[i].kind = "string" /\ digests.elems[i].val # <<>>)
       THEN <<>>
       ELSE [i \in 1..Len(digests.elems) |-> digests.elems[i].val]

\* Object.entries(message.getProperties()): the entries in insertion order
ObjectEntries(message) ==
  [i \in 1..Len(message.order) |->
     [key |-> message.order[i], value |-> message.properties[message.order[i]]]]

\* the properties that enter the hash: the entries whose key is not ignored,
\* in insertion order
keptProperties(message) ==
  SelectSeq(ObjectEntries(message), LAMBDA e : e.key \notin ignoredProperties)

\* mutant: the payload alone is hashed
calculateHashData(message) == message.data

\* createHasher(ignoredProperties): the hashed bytes stand for their hash
calculateHash(message) ==
  message.data \o stringify(keptProperties(message))

\* Buffer.toString("hex")
toHex(buffer) == [i \in 1..Len(buffer) |-> HexByte(buffer[i])]

\* the digest of a message (hash.toString("hex"))
digestOf(message) == toHex(calculateHash(message))

\* mutant: the ignored properties are left out of the output message
producerMessageKept(message) ==
  [data |-> message.data,
   properties |->
     [k \in (DOMAIN message.properties \ ignoredProperties) \cup {propertyName} |->
        IF k = propertyName THEN JSONstringify(<<digestOf(message)>>)
        ELSE message.properties[k]],
   eventTimestamp |-> message.eventTimestamp]

\* the output message built for a source message
producerMessage(message) ==
  [data |-> message.data,
   properties |->
     [k \in DOMAIN message.properties \cup {propertyName} |->
        IF k = propertyName THEN JSONstringify(<<digestOf(message)>>)
        ELSE message.properties[k]],
   eventTimestamp |-> message.eventTimestamp]

(***************************************************************************)
(* ObliviousSet: a Map from value to insertion time, in insertion order.   *)
(***************************************************************************)
\* mutant: the membership test never finds a value
hasNever(map, value) == FALSE

\* mutant: the membership test finds every value
hasAlways(map, value) == TRUE

\* ObliviousSet.has
has(map, value) == \E i \in 1..Len(map) : map[i].value = value

\* mutant: the value is not inserted
addNothing(map, value, time) == map

\* mutant: a value that is present is inserted once more
addAgain(map, value, time) == Append(map, [value |-> value, time |-> time])

\* Map.set inside ObliviousSet.add: a present key keeps its place
add(map, value, time) ==
  IF has(map, value)
  THEN [i \in 1..Len(map) |->
          IF map[i].value = value THEN [value |-> value, time |-> time] ELSE map[i]]
  ELSE Append(map, [value |-> value, time |-> time])

RECURSIVE addAll(_, _, _)
\* digests.forEach((d) => cache.add(d))
addAll(map, values, time) ==
  IF values = <<>> THEN map
  ELSE addAll(add(map, Head(values), time), Tail(values), time)

RECURSIVE removeTooOldValues(_, _)
\* removeTooOldValues: drops entries from the front until one is young enough
removeTooOldValues(map, olderThen) ==
  IF map = <<>> THEN <<>>
  ELSE IF Head(map).time < olderThen THEN removeTooOldValues(Tail(map), olderThen)
  ELSE map

\* the time to live the cache is constructed with
ttl == deduplicationWindowInSeconds * 1000

(***************************************************************************)
(* Constants of keepDeduplicating and buildUpCache.                        *)
(***************************************************************************)
logIntervalInSeconds == 60
READ_TIMEOUT_MS == 1000
MAX_CONSECUTIVE_TIMEOUTS == 3
MAX_NON_TIMEOUT_RETRIES == 5
MAX_WARMUP_MS == 60000
BASE_BACKOFF_MS == 500
MAX_BACKOFF_MS == 5000

RECURSIVE Pow2(_)
Pow2(n) == IF n = 0 THEN 1 ELSE 2 * Pow2(n - 1)

Min(a, b) == IF a < b THEN a ELSE b

\* mutant: the backoff is not capped
backoffUncapped(nonTimeoutRetries) ==
  BASE_BACKOFF_MS * Pow2(nonTimeoutRetries)

\* Math.min(BASE_BACKOFF_MS * 2 ** nonTimeoutRetries, 5_000)
backoffMs(nonTimeoutRetries) ==
  Min(BASE_BACKOFF_MS * Pow2(nonTimeoutRetries), MAX_BACKOFF_MS)

(***************************************************************************)
(* The values readNext may reject with.  A thrown value is a record of its *)
(* kind ("object", "string", "null", "undefined") and of its properties    *)
(* name, code and message; a property is a record of its type and value,   *)
(* the value of a string being a sequence of characters.                   *)
(***************************************************************************)
undefined == [type |-> "undefined", val |-> <<>>]

\* a string value
str(val) == [type |-> "string", val |-> val]

\* err?.property: undefined for null and undefined, and for a primitive,
\* which has none of the three properties
optionalChain(err, property) ==
  IF err.kind = "object" THEN err[property] ELSE undefined

\* Canonicalize of a case-insensitive regular expression without the u flag:
\* the upper-case form of the character
Canonicalize(ch) ==
  CASE ch = "t" -> "T"
    [] ch = "i" -> "I"
    [] ch = "m" -> "M"
    [] ch = "e" -> "E"
    [] ch = "o" -> "O"
    [] ch = "u" -> "U"
    [] OTHER -> ch

\* the pattern of /timeout/i
timeoutPattern == <<"t", "i", "m", "e", "o", "u", "t">>

\* mutant: /timeout/.test(text), the case of the letters matters
regexTestExact(text) ==
  \E at \in 0..Len(text) - Len(timeoutPattern) :
    \A k \in 1..Len(timeoutPattern) : text[at + k] = timeoutPattern[k]

\* /timeout/i.test(text): the pattern matches at some position of the text
regexTest(text) ==
  \E at \in 0..Len(text) - Len(timeoutPattern) :
    \A k \in 1..Len(timeoutPattern) :
      Canonicalize(text[at + k]) = Canonicalize(timeoutPattern[k])

\* the strings "TimeoutError", "Timeout" and "Error"
TimeoutError == <<"T", "i", "m", "e", "o", "u", "t", "E", "r", "r", "o", "r">>
Timeout == <<"T", "i", "m", "e", "o", "u", "t">>
ErrorName == <<"E", "r", "r", "o", "r">>

\* isTimeout of the catch block of the read loop
isTimeout(err) ==
  LET name == optionalChain(err, "name")
      code == optionalChain(err, "code")
      message == optionalChain(err, "message")
  IN  \/ (name.type = "string" /\ name.val = TimeoutError)
      \/ (code.type = "string" /\ code.val = Timeout)
      \/ (message.type = "string" /\ regexTest(message.val))

\* an Error object
Error(name, code, message) ==
  [kind |-> "object", name |-> name, code |-> code, message |-> message]

\* the values readNext rejects with in the model: errors that name a timeout
\* by name, by code or in their message, in several letter cases; errors that
\* come close (another case of name or code, a split word, a message that is
\* no string); and thrown values that are no objects
ReadFailures ==
  { Error(str(TimeoutError), undefined, str(<<"x">>)),
    Error(str(ErrorName), str(Timeout), undefined),
    Error(str(ErrorName), undefined, str(<<":", " ", "T", "i", "m", "e", "O", "u", "t">>)),
    Error(str(ErrorName), undefined, str(<<"t", "i", "m", "e", "o", "u", "t", "!">>)),
    Error(str(ErrorName), undefined, str(<<"T", "I", "M", "E", "O", "U", "T">>)),
    Error(str(<<"t", "i", "m", "e", "o", "u", "t", "e", "r", "r", "o", "r">>), undefined, undefined),
    Error(str(ErrorName), str(<<"t", "i", "m", "e", "o", "u", "t">>), str(<<"x">>)),
    Error(str(ErrorName), [type |-> "number", val |-> <<"4", "0", "8">>], str(<<"t", "i", "m", "e", " ", "o", "u", "t">>)),
    Error(undefined, undefined, [type |-> "object", val |-> <<"t", "i", "m", "e", "o", "u", "t">>]),
    Error(str(ErrorName), undefined, str(<<"t", "i", "m", "e", "o", "u">>)),
    [kind |-> "string", name |-> undefined, code |-> undefined,
     message |-> undefined],
    [kind |-> "null", name |-> undefined, code |-> undefined,
     message |-> undefined],
    [kind |-> "undefined", name |-> undefined, code |-> undefined,
     message |-> undefined] }

(***************************************************************************)
(* The source messages the subscription may deliver.  The second differs   *)
(* from the first in an ignored property and in its event timestamp only.  *)
(***************************************************************************)
NoProperties == [k \in {} |-> <<>>]

SourceMessages ==
  { [data |-> <<"f">>, properties |-> NoProperties, order |-> <<>>,
     eventTimestamp |-> 1],
    [data |-> <<"f">>, properties |-> [k \in {<<"c">>} |-> <<"g">>],
     order |-> << <<"c">> >>, eventTimestamp |-> 2],
    [data |-> <<"b">>, properties |-> NoProperties, order |-> <<>>,
     eventTimestamp |-> 1] }

Ids == 1..MaxMsgs

\* the payloads, property keys and property values of the messages that
\* exercise the hasher; the key "c" is ignored
HashData == { <<"f">>, <<"f", "{", "}">> }
HashKeys == { <<"a">>, <<"q">>, <<"c">> }
HashValues(key) == IF key = <<"q">> THEN { <<"g">> } ELSE { <<"g">>, <<"i">> }

\* the orders in which the keys of a set may have been inserted
Orders(keys) ==
  {o \in [1..Cardinality(keys) -> keys] :
     \A i, j \in 1..Cardinality(keys) : o[i] = o[j] => i = j}

\* source messages over those payloads, keys and values, with every order of
\* insertion (the event timestamp varies with the first payload), and source
\* messages that carry a property named origin
HashMessages ==
  {m \in UNION {
      {[data |-> d, properties |-> p, order |-> o, eventTimestamp |-> t] :
         d \in HashData,
         p \in {f \in [keys -> UNION {HashValues(k) : k \in keys}] :
                  \A k \in keys : f[k] \in HashValues(k)},
         o \in Orders(keys), t \in {1, 2}} : keys \in SUBSET HashKeys} :
     m.data = <<"f">> \/ m.eventTimestamp = 1}
  \cup
  {[data |-> <<"f">>, properties |-> p, order |-> o, eventTimestamp |-> 1] :
     p \in [{propertyName} -> {<<"g">>, <<"[", "]">>}], o \in {<<propertyName>>}}

(***************************************************************************)
(* State.                                                                  *)
(***************************************************************************)
VARIABLES
  now,       \* Date.now(), in milliseconds
  run,       \* the number of the process run
  pc,        \* where the main function stands: "main", "seek", "read",
             \* "close" (buildUpCache), "receive" (the loop), "stopped"
             \* (keepDeduplicating has rejected), "exited" (process.exit)
  cache,     \* ObliviousSet.map
  cacheTo,   \* ObliviousSet._to: the cleanup timer is pending
  warm,      \* the locals of buildUpCache
  closed,    \* the resources that have been closed
  dest,      \* the destination topic, oldest first (outlives the process)
  source,    \* the source subscription: messages and whether the broker
             \* holds an acknowledgement (outlives the process)
  task,      \* per source message, the operation issued for it in this run
  counters,  \* nRecentForwarded, nRecentDropped
  received,  \* the source messages received in this run, in order
  sendLog,   \* the source messages a send was issued for in this run, in order
  exits,     \* the running invocations of exitGracefully
  exitCode,  \* process.exitCode (0: not set)
  health,    \* the health check reports OK
  created,   \* the resources the main function has created
  used,      \* what has been used of the limits
  lim        \* the limits of the scenario explored

vars == <<now, run, pc, cache, cacheTo, warm, closed, dest, source, task,
          counters, received, sendLog, exits, exitCode, health, created, used,
          lim>>

\* the locals of buildUpCache, with the read timeouts in a row since the last
\* read that ended otherwise (streak), the read timeouts since the last
\* message read (sinceRead), the break that left the loop (left), whether
\* cacheReader.close() has been called, every digest inserted with the
\* time of its last insertion (restored), and the delays passed to setTimeout
\* after read errors (backoffs)
NoWarm == [cutoffTs |-> 0, pos |-> 0, consecutiveTimeouts |-> 0,
           nonTimeoutRetries |-> 0, streak |-> 0, sinceRead |-> 0,
           left |-> "", closeCalled |-> FALSE, restored |-> <<>>,
           backoffs |-> <<>>]

NoTasks == [i \in Ids |-> "idle"]

\* the counters of keepDeduplicating, with the time at which the interval
\* timer that logs and resets them is due (logAt)
NoCounters == [nRecentForwarded |-> 0, nRecentDropped |-> 0, logAt |-> 0]

\* mutant: the hasher of each process instance is keyed, so the digest in the
\* origin depends on the run that forwarded the message
forwardedKeyed(message, publishTimestamp, src, by) ==
  LET out == producerMessage(message)
      key == IF by = 1 THEN <<"a">> ELSE <<"b">>
      keyed == JSONstringify(<<toHex(key \o calculateHash(message))>>)
  IN
  [data |-> out.data,
   properties |-> [k \in DOMAIN out.properties |->
                     IF k = propertyName THEN keyed ELSE out.properties[k]],
   eventTimestamp |-> out.eventTimestamp,
   publishTimestamp |-> publishTimestamp, src |-> src, by |-> by]

\* a message on the destination topic: the output message built for a source
\* message, as published at publishTimestamp (src and by: the source message
\* and the run that forwarded it, 0 for one that another process forwarded)
forwarded(message, publishTimestamp, src, by) ==
  LET out == producerMessage(message) IN
  [data |-> out.data, properties |-> out.properties,
   eventTimestamp |-> out.eventTimestamp,
   publishTimestamp |-> publishTimestamp, src |-> src, by |-> by]

\* the process has just been started, with the limits and on one of the
\* destination topics given
InitWith(limits, histories) ==
  /\ now = Epoch
  /\ run = 1
  /\ dest \in histories
  /\ source = <<>>
  /\ used = [ticks |-> 0, faults |-> 0, timeouts |-> 0, others |-> 0, late |-> 0]
  /\ lim = limits
  /\ pc = "main"
  /\ cache = <<>>
  /\ cacheTo = FALSE
  /\ warm = NoWarm
  /\ closed = {}
  /\ task = NoTasks
  /\ counters = NoCounters
  /\ received = <<>>
  /\ sendLog = <<>>
  /\ exits = <<>>
  /\ exitCode = 0
  /\ health = FALSE
  /\ created = {}

\* the destination topics the first run may find: empty, or holding one
\* message forwarded a second before
Histories ==
  { <<>>,
    << forwarded([data |-> <<"b">>, properties |-> NoProperties, order |-> <<>>,
                  eventTimestamp |-> 1], Epoch - 1000, 0, 0) >> }

\* the steady state without failures
Init ==
  InitWith([msgs |-> MaxMsgs, ticks |-> MaxTicks, runs |-> 1,
            faults |-> 0, timeouts |-> 0, exits |-> 0,
            late |-> 0, others |-> 0],
           Histories)

\* failures, the fault boundary and restarts
InitFault ==
  InitWith([msgs |-> MaxMsgs - 1, ticks |-> MaxTicks - 1, runs |-> 2,
            faults |-> MaxFaults, timeouts |-> MaxTimeouts, exits |-> MaxExits,
            late |-> 0, others |-> 0],
           {<<>>})

running == pc # "exited"

(***************************************************************************)
(* src/index.ts: the fault boundary.                                       *)
(***************************************************************************)
\* the resources of the service, in the order in which the main function
\* creates them
Resources == <<"healthServer", "client", "producer", "reader", "consumer">>

\* mutant: the producer is closed without being flushed
nextStepSkipFlush(s) ==
  CASE s = "setHealth" -> "closeConsumer"
    [] s = "closeConsumer" -> "closeReader"
    [] s = "closeReader" -> "closeProducer"
    [] s = "closeProducer" -> "closeClient"
    [] s = "closeClient" -> "closeHealth"
    [] s = "closeHealth" -> "exit"
    [] OTHER -> "exit"

\* the step of exitGracefully that follows step s
nextStep(s) ==
  CASE s = "setHealth" -> "closeConsumer"
    [] s = "closeConsumer" -> "closeReader"
    [] s = "closeReader" -> "flush"
    [] s = "flush" -> "closeProducer"
    [] s = "closeProducer" -> "closeClient"
    [] s = "closeClient" -> "closeHealth"
    [] s = "closeHealth" -> "exit"
    [] OTHER -> "exit"

\* the resource a step of exitGracefully closes
closes(s) ==
  CASE s = "closeConsumer" -> {"consumer"}
    [] s = "closeReader" -> {"reader"}
    [] s = "closeProducer" -> {"producer"}
    [] s = "closeClient" -> {"client"}
    [] s = "closeHealth" -> {"healthServer"}
    [] OTHER -> {}

\* the resource a step of exitGracefully is guarded by
uses(s) == IF s = "flush" THEN {"producer"} ELSE closes(s)

RECURSIVE nextAwait(_, _)
\* the first step after step s whose resource was passed to exitGracefully:
\* the steps of resources that do not exist are skipped without an await
nextAwait(s, args) ==
  LET n == nextStep(s) IN
  IF n = "exit" \/ uses(n) \subseteq args THEN n ELSE nextAwait(n, args)

\* an invocation of exitGracefully with exit code code and the resources
\* args, at its first await; called: the awaited steps it has started
teardown(code, args) ==
  LET first == nextAwait("setHealth", args) IN
  [code |-> code, step |-> first, args |-> args, called |-> {first} \ {"exit"}]

\* exitGracefully up to its first await: process.exitCode and the health
\* flag are set, then the first resource that exists is being closed
exitGracefully(code) ==
  /\ exitCode' = code
  /\ health' = FALSE
  /\ exits' = IF Len(exits) < lim.exits
              THEN Append(exits, teardown(code, created))
              ELSE exits

\* exitHandler, as called by the listeners on unhandledRejection and
\* uncaughtException and by the catch of the main function; it passes the
\* resources that exist when it is called
exitHandler(code) == exitGracefully(code)

\* the invocation after its awaited step has settled: it starts the next
\* step whose resource exists
settled(e) ==
  LET next == nextAwait(e.step, e.args) IN
  [e EXCEPT !.step = next, !.called = @ \cup ({next} \ {"exit"})]

\* one awaited step of an invocation of exitGracefully settles; producer.flush
\* settles once no send is pending
ExitStep(i) ==
  /\ running
  /\ i \in 1..Len(exits)
  /\ exits[i].step # "exit"
  /\ exits[i].step = "flush" => \A id \in Ids : task[id] # "sending"
  /\ exits' = [exits EXCEPT ![i] = settled(@)]
  /\ closed' = closed \cup closes(exits[i].step)
  /\ UNCHANGED <<now, run, pc, cache, cacheTo, warm, dest, source, task,
                 counters, received, sendLog, exitCode, health, used,
                 created, lim>>

\* the exit codes of the listeners on SIGINT, SIGQUIT and SIGTERM
SignalCodes == {130, 131, 143}

\* a signal is delivered once the service has started: its listener calls
\* exitHandler with the code of the signal
Signal(code) ==
  /\ running
  /\ pc # "main"
  /\ Len(exits) < lim.exits
  /\ exitHandler(code)
  /\ UNCHANGED <<now, run, pc, cache, cacheTo, warm, closed, dest, source, task,
                 counters, received, sendLog, used, created, lim>>

\* mutant: the rejection of an awaited step ends the teardown: the later
\* steps are skipped
ExitStepFailAborts(i) ==
  /\ running
  /\ i \in 1..Len(exits)
  /\ exits[i].step # "exit"
  /\ used.faults < lim.faults
  /\ used' = [used EXCEPT !.faults = @ + 1]
  /\ exits' = [exits EXCEPT ![i].step = "exit"]
  /\ UNCHANGED <<now, run, pc, cache, cacheTo, warm, closed, dest, source, task,
                 counters, received, sendLog, exitCode, health, created, lim>>

\* one awaited step of an invocation of exitGracefully rejects: the error is
\* caught and logged, and the invocation goes on to its next step
ExitStepFail(i) ==
  /\ running
  /\ i \in 1..Len(exits)
  /\ exits[i].step # "exit"
  /\ used.faults < lim.faults
  /\ used' = [used EXCEPT !.faults = @ + 1]
  /\ exits' = [exits EXCEPT ![i] = settled(@)]
  /\ UNCHANGED <<now, run, pc, cache, cacheTo, warm, closed, dest, source, task,
                 counters, received, sendLog, exitCode, health, created, lim>>

\* a signal is delivered once the service has started and setHealthOk(false)
\* throws: the error is caught and logged, and exitGracefully goes on
SignalHealthThrows(code) ==
  /\ running
  /\ pc # "main"
  /\ Len(exits) < lim.exits
  /\ used.faults < lim.faults
  /\ used' = [used EXCEPT !.faults = @ + 1]
  /\ exitCode' = code
  /\ exits' = Append(exits, teardown(code, created))
  /\ UNCHANGED <<now, run, pc, cache, cacheTo, warm, closed, dest, source, task,
                 counters, received, sendLog, health, created, lim>>

\* process.exit() at the end of exitGracefully: the process ends with
\* process.exitCode
ProcessExit(i) ==
  /\ running
  /\ i \in 1..Len(exits)
  /\ exits[i].step = "exit"
  /\ pc' = "exited"
  /\ UNCHANGED <<now, run, cache, cacheTo, warm, closed, dest, source, task,
                 counters, received, sendLog, exits, exitCode, health, used,
                 created, lim>>

\* the orchestrator starts the process again
Restart ==
  /\ pc = "exited"
  /\ run < lim.runs
  /\ run' = run + 1
  /\ pc' = "main"
  /\ cache' = <<>>
  /\ cacheTo' = FALSE
  /\ warm' = NoWarm
  /\ closed' = {}
  /\ task' = NoTasks
  /\ counters' = NoCounters
  /\ received' = <<>>
  /\ sendLog' = <<>>
  /\ exits' = <<>>
  /\ exitCode' = 0
  /\ health' = FALSE
  /\ created' = {}
  /\ UNCHANGED <<now, dest, source, used, lim>>

(***************************************************************************)
(* src/index.ts main and src/deduplication.ts keepDeduplicating, up to the *)
(* first await of buildUpCache.                                            *)
(***************************************************************************)
\* the resources are created, health is set to OK, keepDeduplicating creates
\* the cache and calls buildUpCache, which asks the reader to seek
Start ==
  /\ pc = "main"
  /\ created' = {Resources[n] : n \in 1..Len(Resources)}
  /\ health' = TRUE
  /\ warm' = [NoWarm EXCEPT !.cutoffTs = now]
  /\ pc' = "seek"
  /\ UNCHANGED <<now, run, cache, cacheTo, closed, dest, source, task,
                 counters, received, sendLog, exits, exitCode, used, lim>>

\* the main function fails after it has created the first n resources (in
\* getConfig, or when it creates the next resource): its catch calls
\* exitHandler(1) with the resources that exist
StartFail(n) ==
  /\ pc = "main"
  /\ used.faults < lim.faults
  /\ used' = [used EXCEPT !.faults = @ + 1]
  /\ LET args == {Resources[k] : k \in 1..n} IN
     /\ created' = args
     /\ exits' = IF Len(exits) < lim.exits
                 THEN Append(exits, teardown(1, args))
                 ELSE exits
  /\ exitCode' = 1
  /\ health' = FALSE
  /\ pc' = "stopped"
  /\ UNCHANGED <<now, run, cache, cacheTo, warm, closed, dest, source, task,
                 counters, received, sendLog, lim>>

(***************************************************************************)
(* src/cacheBuilding.ts buildUpCache.                                      *)
(***************************************************************************)
\* start = now - cacheWindowInSeconds * 1000
startOf(cutoffTs) == cutoffTs - cacheWindowInSeconds * 1000

\* mutant: the reader is positioned after the last message
seekPastEnd(topic, timestamp) == Len(topic) + 1

\* Reader.seekTimestamp: the position of the first message published at or
\* after the timestamp
seekTimestamp(topic, timestamp) ==
  LET at == {i \in 1..Len(topic) : topic[i].publishTimestamp >= timestamp} IN
  IF at = {} THEN Len(topic) + 1
  ELSE CHOOSE i \in at : \A j \in at : i <= j

\* mutant: the publish timestamp is compared with the cutoff, whatever it is
effectiveTsPublish(msg) == msg.publishTimestamp

\* the timestamp of a historical message that is compared with the cutoff
effectiveTs(msg) ==
  IF msg.publishTimestamp > 0 THEN msg.publishTimestamp ELSE msg.eventTimestamp

\* await cacheReader.seekTimestamp(start) returns
SeekDone ==
  /\ pc = "seek"
  /\ warm' = [warm EXCEPT !.pos = seekTimestamp(dest, startOf(warm.cutoffTs))]
  /\ pc' = "read"
  /\ UNCHANGED <<now, run, cache, cacheTo, closed, dest, source, task,
                 counters, received, sendLog, exits, exitCode, health, used,
                 created, lim>>

\* await cacheReader.seekTimestamp(start) throws: the error leaves
\* buildUpCache and keepDeduplicating and is caught by the main function
SeekFail ==
  /\ pc = "seek"
  /\ used.faults < lim.faults
  /\ used' = [used EXCEPT !.faults = @ + 1]
  /\ pc' = "stopped"
  /\ exitHandler(1)
  /\ UNCHANGED <<now, run, cache, cacheTo, warm, closed, dest, source, task,
                 counters, received, sendLog, created, lim>>

\* mutant: a message that is read does not reset consecutiveTimeouts
ReadMessageNoReset ==
  /\ pc = "read"
  /\ warm.pos <= Len(dest)
  /\ LET msg == dest[warm.pos]
         digests == getDigests(msg)
     IN  IF effectiveTs(msg) > warm.cutoffTs
         THEN /\ pc' = "close"
              /\ warm' = [warm EXCEPT !.pos = @ + 1, !.streak = 0, !.left = "past"]
              /\ UNCHANGED <<cache, cacheTo>>
         ELSE /\ cache' = addAll(cache, digests, now)
              /\ cacheTo' = (cacheTo \/ digests # <<>>)
              /\ warm' = [warm EXCEPT !.pos = @ + 1, !.consecutiveTimeouts = @,
                                      !.streak = 0, !.sinceRead = 0,
                                      !.restored = addAll(@, digests, now)]
              /\ pc' = pc
  /\ UNCHANGED <<now, run, closed, dest, source, task, counters, received,
                 sendLog, exits, exitCode, health, used, created, lim>>

\* mutant: a message that is read sets nonTimeoutRetries back to zero
ReadMessageResetsRetries ==
  /\ pc = "read"
  /\ warm.pos <= Len(dest)
  /\ LET msg == dest[warm.pos]
         digests == getDigests(msg)
     IN  IF effectiveTs(msg) > warm.cutoffTs
         THEN /\ pc' = "close"
              /\ warm' = [warm EXCEPT !.pos = @ + 1, !.streak = 0, !.left = "past"]
              /\ UNCHANGED <<cache, cacheTo>>
         ELSE /\ cache' = addAll(cache, digests, now)
              /\ cacheTo' = (cacheTo \/ digests # <<>>)
              /\ warm' = [warm EXCEPT !.pos = @ + 1, !.consecutiveTimeouts = 0,
                                      !.nonTimeoutRetries = 0,
                                      !.streak = 0, !.sinceRead = 0,
                                      !.restored = addAll(@, digests, now)]
              /\ pc' = pc
  /\ UNCHANGED <<now, run, closed, dest, source, task, counters, received,
                 sendLog, exits, exitCode, health, used, created, lim>>

\* mutant: a restored digest is timed by the timestamp of its message
ReadMessageTimedByPublish ==
  /\ pc = "read"
  /\ warm.pos <= Len(dest)
  /\ LET msg == dest[warm.pos]
         digests == getDigests(msg)
     IN  IF effectiveTs(msg) > warm.cutoffTs
         THEN /\ pc' = "close"
              /\ warm' = [warm EXCEPT !.pos = @ + 1, !.streak = 0, !.left = "past"]
              /\ UNCHANGED <<cache, cacheTo>>
         ELSE /\ cache' = addAll(cache, digests, effectiveTs(msg))
              /\ cacheTo' = (cacheTo \/ digests # <<>>)
              /\ warm' = [warm EXCEPT !.pos = @ + 1, !.consecutiveTimeouts = 0,
                                      !.streak = 0, !.sinceRead = 0,
                                      !.restored = addAll(@, digests, effectiveTs(msg))]
              /\ pc' = pc
  /\ UNCHANGED <<now, run, closed, dest, source, task, counters, received,
                 sendLog, exits, exitCode, health, used, created, lim>>

\* readNext returns the next historical message
ReadMessage ==
  /\ pc = "read"
  /\ warm.pos <= Len(dest)
  /\ LET msg == dest[warm.pos]
         digests == getDigests(msg)
     IN  IF effectiveTs(msg) > warm.cutoffTs
         THEN /\ pc' = "close"
              /\ warm' = [warm EXCEPT !.pos = @ + 1, !.streak = 0, !.left = "past"]
              /\ UNCHANGED <<cache, cacheTo>>
         ELSE /\ cache' = addAll(cache, digests, now)
              /\ cacheTo' = (cacheTo \/ digests # <<>>)
              /\ warm' = [warm EXCEPT !.pos = @ + 1, !.consecutiveTimeouts = 0,
                                      !.streak = 0, !.sinceRead = 0,
                                      !.restored = addAll(@, digests, now)]
              /\ pc' = pc
  /\ UNCHANGED <<now, run, closed, dest, source, task, counters, received,
                 sendLog, exits, exitCode, health, used, created, lim>>

\* mutant: a read timeout is not counted, so timeouts never end warm-up
ReadTimeoutNotCounted ==
  /\ pc = "read"
  /\ ~cacheTo
  /\ \/ /\ warm.pos > Len(dest)
        /\ now' = now + READ_TIMEOUT_MS
        /\ used' = used
     \/ /\ warm.pos <= Len(dest)
        /\ used.timeouts < lim.timeouts
        /\ now' = now + READ_TIMEOUT_MS
        /\ used' = [used EXCEPT !.timeouts = @ + 1]
  /\ warm' = [warm EXCEPT !.streak = @ + 1, !.sinceRead = @ + 1]
  /\ pc' = "read"
  /\ UNCHANGED <<run, cache, cacheTo, closed, dest, source, task, counters,
                 received, sendLog, exits, exitCode, health, created, lim>>

\* readNext times out after READ_TIMEOUT_MS: always when the topic holds no
\* further message, and possibly when the broker is slow; the rejection is
\* handled after the timeout, or late; the cleanup that an add scheduled runs
\* before a later timer does
ReadTimeout ==
  /\ pc = "read"
  /\ ~cacheTo
  /\ \/ /\ warm.pos > Len(dest)
        /\ now' = now + READ_TIMEOUT_MS
        /\ used' = used
     \/ /\ warm.pos <= Len(dest)
        /\ used.timeouts < lim.timeouts
        /\ now' = now + READ_TIMEOUT_MS
        /\ used' = [used EXCEPT !.timeouts = @ + 1]
     \/ /\ warm.pos > Len(dest)
        /\ used.late < lim.late
        /\ now' = now + READ_TIMEOUT_MS + LateMs
        /\ used' = [used EXCEPT !.late = @ + 1]
  /\ LET stop == warm.consecutiveTimeouts + 1 >= MAX_CONSECUTIVE_TIMEOUTS IN
     /\ warm' = [warm EXCEPT !.consecutiveTimeouts = @ + 1, !.streak = @ + 1,
                             !.sinceRead = @ + 1,
                             !.left = IF stop THEN "timeouts" ELSE @]
     /\ pc' = IF stop THEN "close" ELSE "read"
  /\ UNCHANGED <<run, cache, cacheTo, closed, dest, source, task, counters,
                 received, sendLog, exits, exitCode, health, created, lim>>

\* mutant: a read error sets consecutiveTimeouts back to zero
ReadErrorResetsTimeouts ==
  /\ pc = "read"
  /\ ~cacheTo
  /\ used.faults < lim.faults
  /\ \/ /\ now' = now + backoffMs(warm.nonTimeoutRetries)
        /\ used' = [used EXCEPT !.faults = @ + 1]
     \/ /\ used.late < lim.late
        /\ now' = now + backoffMs(warm.nonTimeoutRetries) + LateMs
        /\ used' = [used EXCEPT !.faults = @ + 1, !.late = @ + 1]
  /\ LET stop == \/ warm.nonTimeoutRetries + 1 >= MAX_NON_TIMEOUT_RETRIES
                 \/ now' - warm.cutoffTs >= MAX_WARMUP_MS
     IN  /\ warm' = [warm EXCEPT !.nonTimeoutRetries = @ + 1, !.streak = 0,
                                 !.backoffs = Append(@, backoffMs(warm.nonTimeoutRetries)),
                                 !.consecutiveTimeouts = 0,
                                 !.left = IF stop THEN "errors" ELSE @]
         /\ pc' = IF stop THEN "close" ELSE "read"
  /\ UNCHANGED <<run, cache, cacheTo, closed, dest, source, task, counters,
                 received, sendLog, exits, exitCode, health, created, lim>>

\* mutant: warm-up gives up on read errors by the number of retries only
ReadErrorRetriesOnly ==
  /\ pc = "read"
  /\ ~cacheTo
  /\ used.faults < lim.faults
  /\ \/ /\ now' = now + backoffMs(warm.nonTimeoutRetries)
        /\ used' = [used EXCEPT !.faults = @ + 1]
     \/ /\ used.late < lim.late
        /\ now' = now + backoffMs(warm.nonTimeoutRetries) + LateMs
        /\ used' = [used EXCEPT !.faults = @ + 1, !.late = @ + 1]
  /\ LET stop == warm.nonTimeoutRetries + 1 >= MAX_NON_TIMEOUT_RETRIES
     IN  /\ warm' = [warm EXCEPT !.nonTimeoutRetries = @ + 1, !.streak = 0,
                                 !.backoffs = Append(@, backoffMs(warm.nonTimeoutRetries)),
                                 !.left = IF stop THEN "errors" ELSE @]
         /\ pc' = IF stop THEN "close" ELSE "read"
  /\ UNCHANGED <<run, cache, cacheTo, closed, dest, source, task, counters,
                 received, sendLog, exits, exitCode, health, created, lim>>

\* mutant: warm-up gives up on read errors by the time bound only
ReadErrorUnbounded ==
  /\ pc = "read"
  /\ ~cacheTo
  /\ used.faults < lim.faults
  /\ \/ /\ now' = now + backoffMs(warm.nonTimeoutRetries)
        /\ used' = [used EXCEPT !.faults = @ + 1]
     \/ /\ used.late < lim.late
        /\ now' = now + backoffMs(warm.nonTimeoutRetries) + LateMs
        /\ used' = [used EXCEPT !.faults = @ + 1, !.late = @ + 1]
  /\ LET stop == now' - warm.cutoffTs >= MAX_WARMUP_MS
     IN  /\ warm' = [warm EXCEPT !.nonTimeoutRetries = @ + 1, !.streak = 0,
                                 !.backoffs = Append(@, backoffMs(warm.nonTimeoutRetries)),
                                 !.left = IF stop THEN "errors" ELSE @]
         /\ pc' = IF stop THEN "close" ELSE "read"
  /\ UNCHANGED <<run, cache, cacheTo, closed, dest, source, task, counters,
                 received, sendLog, exits, exitCode, health, created, lim>>

\* readNext fails with an error that is no timeout: back off (the timer fires
\* after the delay, or late), then retry or give up
ReadError ==
  /\ pc = "read"
  /\ ~cacheTo
  /\ used.faults < lim.faults
  /\ \/ /\ now' = now + backoffMs(warm.nonTimeoutRetries)
        /\ used' = [used EXCEPT !.faults = @ + 1]
     \/ /\ used.late < lim.late
        /\ now' = now + backoffMs(warm.nonTimeoutRetries) + LateMs
        /\ used' = [used EXCEPT !.faults = @ + 1, !.late = @ + 1]
  /\ LET stop == \/ warm.nonTimeoutRetries + 1 >= MAX_NON_TIMEOUT_RETRIES
                 \/ now' - warm.cutoffTs >= MAX_WARMUP_MS
     IN  /\ warm' = [warm EXCEPT !.nonTimeoutRetries = @ + 1, !.streak = 0,
                                 !.backoffs = Append(@, backoffMs(warm.nonTimeoutRetries)),
                                 !.left = IF stop THEN "errors" ELSE @]
         /\ pc' = IF stop THEN "close" ELSE "read"
  /\ UNCHANGED <<run, cache, cacheTo, closed, dest, source, task, counters,
                 received, sendLog, exits, exitCode, health, created, lim>>

\* readNext rejects with err: the catch block classifies the failure and
\* handles it as a timeout or as a read error
ReadFail(err) ==
  IF isTimeout(err) THEN ReadTimeout ELSE ReadError

\* the finally block: the reader is closed, buildUpCache returns and
\* keepDeduplicating enters its loop
CloseReader ==
  /\ pc = "close"
  /\ closed' = closed \cup {"reader"}
  /\ warm' = [warm EXCEPT !.closeCalled = TRUE]
  /\ pc' = "receive"
  /\ counters' = [NoCounters EXCEPT !.logAt = now + 1000 * logIntervalInSeconds]
  /\ UNCHANGED <<now, run, cache, cacheTo, dest, source, task,
                 received, sendLog, exits, exitCode, health, used,
                 created, lim>>

\* the finally block: cacheReader.close() rejects, the error is caught and
\* logged, buildUpCache returns and keepDeduplicating enters its loop
CloseReaderFail ==
  /\ pc = "close"
  /\ used.faults < lim.faults
  /\ used' = [used EXCEPT !.faults = @ + 1]
  /\ warm' = [warm EXCEPT !.closeCalled = TRUE]
  /\ pc' = "receive"
  /\ counters' = [NoCounters EXCEPT !.logAt = now + 1000 * logIntervalInSeconds]
  /\ UNCHANGED <<now, run, cache, cacheTo, closed, dest, source, task,
                 received, sendLog, exits, exitCode, health, created, lim>>

\* another replica of the deduplicator publishes message m on the destination
\* topic while this one warms up
OtherPublish(m) ==
  /\ pc = "read"
  /\ used.others < lim.others
  /\ used' = [used EXCEPT !.others = @ + 1]
  /\ dest' = Append(dest, forwarded(m, now, 0, 0))
  /\ UNCHANGED <<now, run, pc, cache, cacheTo, warm, closed, source, task,
                 counters, received, sendLog, exits, exitCode, health,
                 created, lim>>

(***************************************************************************)
(* ObliviousSet: the cleanup that add schedules with setTimeout(.., 0).    *)
(***************************************************************************)
CacheCleanup ==
  /\ running
  /\ cacheTo
  /\ cacheTo' = FALSE
  /\ cache' = removeTooOldValues(cache, now - ttl)
  /\ UNCHANGED <<now, run, pc, warm, closed, dest, source, task, counters,
                 received, sendLog, exits, exitCode, health, used,
                 created, lim>>

(***************************************************************************)
(* src/deduplication.ts keepDeduplicating: the loop, and sendAndAck.       *)
(***************************************************************************)
\* mutant: the send is handed to the producer ahead of the sends issued before
sendAndAckNewestFirst(id) ==
  /\ task' = [task EXCEPT ![id] = "sending"]
  /\ sendLog' = <<[id |-> id, at |-> now]>> \o sendLog

\* sendAndAck up to its first await: producer.send is called for the output
\* message of source message id
sendAndAck(id) ==
  /\ task' = [task EXCEPT ![id] = "sending"]
  /\ sendLog' = Append(sendLog, [id |-> id, at |-> now])

\* mutant: a duplicate inserts its digest again
handleRefresh(id, message) ==
  LET digest == digestOf(message) IN
  /\ received' = Append(received, [id |-> id, at |-> now, seen |-> Len(dest)])
  /\ IF ~has(cache, digest)
     THEN /\ cache' = add(cache, digest, now)
          /\ cacheTo' = TRUE
          /\ sendAndAck(id)
          /\ counters' = counters
     ELSE /\ task' = [task EXCEPT ![id] = "dupAcking"]
          /\ counters' = [counters EXCEPT !.nRecentDropped = @ + 1]
          /\ cache' = add(cache, digest, now)
          /\ cacheTo' = TRUE
          /\ UNCHANGED sendLog

\* mutant: the forwarded counter is incremented when the send is issued
handleCountAtSend(id, message) ==
  LET digest == digestOf(message) IN
  /\ received' = Append(received, [id |-> id, at |-> now, seen |-> Len(dest)])
  /\ IF ~has(cache, digest)
     THEN /\ cache' = add(cache, digest, now)
          /\ cacheTo' = TRUE
          /\ sendAndAck(id)
          /\ counters' = [counters EXCEPT !.nRecentForwarded = @ + 1]
     ELSE /\ task' = [task EXCEPT ![id] = "dupAcking"]
          /\ counters' = [counters EXCEPT !.nRecentDropped = @ + 1]
          /\ UNCHANGED <<cache, cacheTo, sendLog>>

\* mutant: every received message is forwarded, without a look at the cache
handleAlwaysForward(id, message) ==
  /\ received' = Append(received, [id |-> id, at |-> now, seen |-> Len(dest)])
  /\ cache' = add(cache, digestOf(message), now)
  /\ cacheTo' = TRUE
  /\ sendAndAck(id)
  /\ counters' = counters

\* the body of the loop for the message received
handle(id, message) ==
  LET digest == digestOf(message) IN
  /\ received' = Append(received, [id |-> id, at |-> now, seen |-> Len(dest)])
  /\ IF ~has(cache, digest)
     THEN /\ cache' = add(cache, digest, now)
          /\ cacheTo' = TRUE
          /\ sendAndAck(id)
          /\ counters' = counters
     ELSE /\ task' = [task EXCEPT ![id] = "dupAcking"]
          /\ counters' = [counters EXCEPT !.nRecentDropped = @ + 1]
          /\ UNCHANGED <<cache, cacheTo, sendLog>>

\* the unacknowledged messages the broker has yet to deliver in this run
pending == {i \in 1..Len(source) : ~source[i].acked /\ task[i] = "idle"}

\* mutant: the loop receives while buildUpCache is still reading
ReceiveDuringWarmUp(m) ==
  /\ pc \in {"read", "receive"}
  /\ "consumer" \notin closed
  /\ {i \in 1..Len(source) : ~source[i].acked /\ task[i] = "idle"} = {}
  /\ Len(source) < lim.msgs
  /\ source' = Append(source, [message |-> m, acked |-> FALSE])
  /\ handle(Len(source) + 1, m)
  /\ UNCHANGED <<now, run, pc, warm, closed, dest, exits, exitCode, health, used,
                 created, lim>>

\* mutant: the loop awaits sendAndAck and the acknowledgement of a duplicate
\* before it receives again
ReceiveAfterCompletion(m) ==
  /\ pc = "receive"
  /\ "consumer" \notin closed
  /\ {i \in 1..Len(source) : ~source[i].acked /\ task[i] = "idle"} = {}
  /\ Len(source) < lim.msgs
  /\ \A id \in Ids : task[id] \in {"idle", "done", "dupDone"}
  /\ source' = Append(source, [message |-> m, acked |-> FALSE])
  /\ handle(Len(source) + 1, m)
  /\ UNCHANGED <<now, run, pc, warm, closed, dest, exits, exitCode, health, used,
                 created, lim>>

\* consumer.receive() returns a message that is new on the subscription
Receive(m) ==
  /\ pc = "receive"
  /\ "consumer" \notin closed
  /\ pending = {}
  /\ Len(source) < lim.msgs
  /\ source' = Append(source, [message |-> m, acked |-> FALSE])
  /\ handle(Len(source) + 1, m)
  /\ UNCHANGED <<now, run, pc, warm, closed, dest, exits, exitCode, health, used,
                 created, lim>>

\* consumer.receive() returns a message that an earlier run left
\* unacknowledged
ReceiveRedelivered ==
  /\ pc = "receive"
  /\ "consumer" \notin closed
  /\ pending # {}
  /\ LET id == CHOOSE i \in pending : \A j \in pending : i <= j IN
     handle(id, source[id].message)
  /\ UNCHANGED <<now, run, pc, warm, closed, dest, source, exits, exitCode,
                 health, used, created, lim>>

\* consumer.receive() rejects: keepDeduplicating rejects and the main
\* function catches
ReceiveFail ==
  /\ pc = "receive"
  /\ \/ /\ "consumer" \in closed
        /\ used' = used
     \/ /\ "consumer" \notin closed
        /\ used.faults < lim.faults
        /\ used' = [used EXCEPT !.faults = @ + 1]
  /\ pc' = "stopped"
  /\ exitHandler(1)
  /\ UNCHANGED <<now, run, cache, cacheTo, warm, closed, dest, source, task,
                 counters, received, sendLog, created, lim>>

\* the loop waits until the interval timer is due: the callback logs the
\* counters and resets them
LogInterval ==
  /\ running
  /\ pc \in {"receive", "stopped"}
  /\ ~cacheTo
  /\ used.ticks < lim.ticks
  /\ used' = [used EXCEPT !.ticks = @ + 1]
  /\ now' = IF now < counters.logAt THEN counters.logAt ELSE now
  /\ counters' = [nRecentForwarded |-> 0, nRecentDropped |-> 0,
                  logAt |-> counters.logAt + 1000 * logIntervalInSeconds]
  /\ UNCHANGED <<run, pc, cache, cacheTo, warm, closed, dest, source, task,
                 received, sendLog, exits, exitCode, health, created, lim>>

\* the sends the producer has been given before the send for id and has not
\* settled
sentBefore(id) ==
  {sendLog[k].id : k \in {j \in 1..Len(sendLog) :
      /\ task[sendLog[j].id] = "sending"
      /\ \E l \in j + 1..Len(sendLog) : sendLog[l].id = id}}

\* sendAndAck: producer.send resolves (the producer publishes in the order of
\* the calls); the message is on the destination topic and the
\* acknowledgement of the source message is issued
SendDone(id) ==
  /\ running
  /\ task[id] = "sending"
  /\ sentBefore(id) = {}
  /\ dest' = Append(dest, forwarded(source[id].message, now, id, run))
  /\ task' = [task EXCEPT ![id] = "acking"]
  /\ UNCHANGED <<now, run, pc, cache, cacheTo, warm, closed, source, counters,
                 received, sendLog, exits, exitCode, health, used,
                 created, lim>>

\* mutant: the rejection of producer.send is swallowed and sendAndAck goes on
\* to acknowledge
SendFailSwallowed(id) ==
  /\ running
  /\ task[id] = "sending"
  /\ used.faults < lim.faults
  /\ used' = [used EXCEPT !.faults = @ + 1]
  /\ task' = [task EXCEPT ![id] = "acking"]
  /\ UNCHANGED <<now, run, pc, cache, cacheTo, warm, closed, dest, source,
                 counters, received, sendLog, exits, exitCode, health,
                 created, lim>>

\* mutant: the rejection of producer.send is caught and logged
SendFailCaught(id) ==
  /\ running
  /\ task[id] = "sending"
  /\ used.faults < lim.faults
  /\ used' = [used EXCEPT !.faults = @ + 1]
  /\ task' = [task EXCEPT ![id] = "sendFailed"]
  /\ UNCHANGED <<now, run, pc, cache, cacheTo, warm, closed, dest, source,
                 counters, received, sendLog, exits, exitCode, health,
                 created, lim>>

\* mutant: the rejection of producer.send takes the digest out of the cache
SendFailRollsBack(id) ==
  /\ running
  /\ task[id] = "sending"
  /\ used.faults < lim.faults
  /\ used' = [used EXCEPT !.faults = @ + 1]
  /\ task' = [task EXCEPT ![id] = "sendFailed"]
  /\ cache' = SelectSeq(cache, LAMBDA e : e.value # digestOf(source[id].message))
  /\ exitHandler(1)
  /\ UNCHANGED <<now, run, pc, cacheTo, warm, closed, dest, source,
                 counters, received, sendLog, created, lim>>

\* sendAndAck: producer.send rejects; sendAndAck rejects, unhandled
SendFail(id) ==
  /\ running
  /\ task[id] = "sending"
  /\ used.faults < lim.faults
  /\ used' = [used EXCEPT !.faults = @ + 1]
  /\ task' = [task EXCEPT ![id] = "sendFailed"]
  /\ exitHandler(1)
  /\ UNCHANGED <<now, run, pc, cache, cacheTo, warm, closed, dest, source,
                 counters, received, sendLog, created, lim>>

\* sendAndAck: consumer.acknowledge resolves, then onSuccess()
AckDone(id) ==
  /\ running
  /\ task[id] = "acking"
  /\ "consumer" \notin closed
  /\ source' = [source EXCEPT ![id].acked = TRUE]
  /\ task' = [task EXCEPT ![id] = "done"]
  /\ counters' = [counters EXCEPT !.nRecentForwarded = @ + 1]
  /\ UNCHANGED <<now, run, pc, cache, cacheTo, warm, closed, dest, received,
                 sendLog, exits, exitCode, health, used, created, lim>>

\* sendAndAck: consumer.acknowledge rejects; sendAndAck rejects, unhandled
AckFail(id) ==
  /\ running
  /\ task[id] = "acking"
  /\ \/ /\ "consumer" \in closed
        /\ used' = used
     \/ /\ "consumer" \notin closed
        /\ used.faults < lim.faults
        /\ used' = [used EXCEPT !.faults = @ + 1]
  /\ task' = [task EXCEPT ![id] = "ackFailed"]
  /\ exitHandler(1)
  /\ UNCHANGED <<now, run, pc, cache, cacheTo, warm, closed, dest, source,
                 counters, received, sendLog, created, lim>>

\* mutant: the acknowledgement of a duplicate is never settled by the broker
DupAckLost(id) ==
  /\ running
  /\ task[id] = "dupAcking"
  /\ "consumer" \notin closed
  /\ task' = [task EXCEPT ![id] = "dupLost"]
  /\ UNCHANGED <<now, run, pc, cache, cacheTo, warm, closed, dest, source, counters,
                 received, sendLog, exits, exitCode, health, used,
                 created, lim>>

\* the acknowledgement of a duplicate resolves
DupAckDone(id) ==
  /\ running
  /\ task[id] = "dupAcking"
  /\ "consumer" \notin closed
  /\ source' = [source EXCEPT ![id].acked = TRUE]
  /\ task' = [task EXCEPT ![id] = "dupDone"]
  /\ UNCHANGED <<now, run, pc, cache, cacheTo, warm, closed, dest, counters,
                 received, sendLog, exits, exitCode, health, used,
                 created, lim>>

\* the acknowledgement of a duplicate rejects, unhandled
DupAckFail(id) ==
  /\ running
  /\ task[id] = "dupAcking"
  /\ \/ /\ "consumer" \in closed
        /\ used' = used
     \/ /\ "consumer" \notin closed
        /\ used.faults < lim.faults
        /\ used' = [used EXCEPT !.faults = @ + 1]
  /\ task' = [task EXCEPT ![id] = "dupFailed"]
  /\ exitHandler(1)
  /\ UNCHANGED <<now, run, pc, cache, cacheTo, warm, closed, dest, source,
                 counters, received, sendLog, created, lim>>

\* time passes while the loop runs, after the cleanup that an add scheduled
Tick ==
  /\ pc = "receive"
  /\ ~cacheTo
  /\ used.ticks < lim.ticks
  /\ used' = [used EXCEPT !.ticks = @ + 1]
  /\ now' = now + TickMs
  /\ UNCHANGED <<run, pc, cache, cacheTo, warm, closed, dest, source, task,
                 counters, received, sendLog, exits, exitCode, health,
                 created, lim>>

(***************************************************************************)
(* The specification.                                                      *)
(***************************************************************************)
\* the steps of a run in which nothing fails
Next ==
  \/ Start
  \/ SeekDone
  \/ ReadMessage
  \/ ReadTimeout
  \/ CloseReader
  \/ CacheCleanup
  \/ \E m \in SourceMessages : Receive(m)
  \/ \E id \in Ids : SendDone(id)
  \/ \E id \in Ids : AckDone(id)
  \/ \E id \in Ids : DupAckDone(id)
  \/ Tick

Spec == Init /\ [][Next]_vars

\* the steps of runs in which broker operations may fail
NextFault ==
  \/ Next
  \/ SeekFail
  \/ ReadError
  \/ ReceiveRedelivered
  \/ ReceiveFail
  \/ \E id \in Ids : SendFail(id)
  \/ \E id \in Ids : AckFail(id)
  \/ \E id \in Ids : DupAckFail(id)
  \/ \E i \in 1..MaxExits : ExitStep(i)
  \/ \E i \in 1..MaxExits : ProcessExit(i)
  \/ CloseReaderFail
  \/ Restart

SpecFault == InitFault /\ [][NextFault]_vars

(***************************************************************************)
(* Warm-up against a destination topic that holds well-formed and          *)
(* malformed origins, with read timeouts, read errors, late timers and a   *)
(* concurrent publisher.                                                   *)
(***************************************************************************)
\* the digests of the source messages
SourceDigests == {digestOf(m) : m \in SourceMessages}

\* the arrays of digests an origin may list
DigestLists ==
  {<<>>} \cup {<<d>> : d \in SourceDigests}
         \cup {<<d, e>> : d \in SourceDigests, e \in SourceDigests}

\* the arrays of digests the origins of the historical messages list
HistoricalLists ==
  LET d == CHOOSE x \in SourceDigests : TRUE
      e == CHOOSE x \in SourceDigests : x # d
  IN  {dl \in {<<>>, <<e>>, <<e, d>>} : Len(dl) <= MaxOrigin}

\* the origins that are a JSON array of non-empty strings
WellFormedOrigins == {JSONstringify(ds) : ds \in DigestLists}

\* origins that are not: no JSON, a JSON string, a JSON object, an array with
\* an empty string after a digest, an array with an object after a digest
MalformedOrigins ==
  LET d == CHOOSE x \in SourceDigests : TRUE IN
  { <<"[">> \o QuoteString(d),
    QuoteString(d),
    <<"{", "}">>,
    JSONstringify(<<d, <<>>>>),
    <<"[">> \o QuoteString(d) \o <<",", "{", "}", "]">> }

\* a message that some process published on the destination topic
historical(properties, publishTimestamp) ==
  [data |-> <<"b">>, properties |-> properties, eventTimestamp |-> 1,
   publishTimestamp |-> publishTimestamp, src |-> 0, by |-> 0]

\* the historical messages: without origin, or with one of some origins
HistoricalMessages ==
  {historical(NoProperties, Epoch - 1000)} \cup
  {historical([k \in {propertyName} |-> o], Epoch - 1000) :
     o \in MalformedOrigins \cup {JSONstringify(ds) : ds \in HistoricalLists}}

\* the destination topics warm-up may find; in the last two, messages
\* without a publish timestamp follow a message with one: y with an event
\* timestamp before the cutoff, x with one after it
WarmHistories ==
  LET d == CHOOSE x \in SourceDigests : TRUE
      e == CHOOSE x \in SourceDigests : x # d
      n == historical([k \in {propertyName} |-> JSONstringify(<<d>>)], Epoch - 500)
      y == historical([k \in {propertyName} |-> JSONstringify(<<e>>)], 0)
      x == [y EXCEPT !.eventTimestamp = Epoch + 1000]
  IN  {<<>>} \cup {<<m>> : m \in HistoricalMessages}
             \cup {<<m, n>> : m \in HistoricalMessages}
             \cup {<<n, y>>, <<n, x, y>>}

\* one run up to the first consumer.receive()
InitWarm ==
  InitWith([msgs |-> 0, ticks |-> 0, runs |-> 1,
            faults |-> MAX_NON_TIMEOUT_RETRIES, timeouts |-> MaxTimeouts - 1,
            exits |-> 1, late |-> 1, others |-> 1],
           WarmHistories)

NextWarm ==
  \/ Start
  \/ SeekDone
  \/ SeekFail
  \/ ReadMessage
  \/ ReadTimeout
  \/ ReadError
  \/ CloseReader
  \/ CloseReaderFail
  \/ \E m \in SourceMessages : OtherPublish(m)
  \/ CacheCleanup
  \/ \E i \in 1..MaxExits : ExitStep(i)
  \/ \E i \in 1..MaxExits : ProcessExit(i)

SpecWarm == InitWarm /\ [][NextWarm]_vars

\* every awaited step of exitGracefully settles, process.exit() ends the
\* process, and the producer settles the sends it has been given
Fairness ==
  /\ WF_vars(\E i \in 1..MaxExits : ExitStep(i))
  /\ WF_vars(\E i \in 1..MaxExits : ProcessExit(i))
  /\ WF_vars(\E id \in Ids : SendDone(id))

\* one run in which a send or an acknowledge may fail
InitFair ==
  InitWith([msgs |-> MaxMsgs - 1, ticks |-> 0, runs |-> 1, faults |-> MaxFaults,
            timeouts |-> 0, exits |-> MaxExits - 1,
            late |-> 0, others |-> 0],
           {<<>>})

\* the steps of that run
NextFair ==
  \/ Start
  \/ SeekDone
  \/ ReadTimeout
  \/ CloseReader
  \/ CacheCleanup
  \/ \E m \in SourceMessages : Receive(m)
  \/ ReceiveFail
  \/ \E id \in Ids : SendDone(id)
  \/ \E id \in Ids : SendFail(id)
  \/ \E id \in Ids : AckDone(id)
  \/ \E id \in Ids : AckFail(id)
  \/ \E id \in Ids : DupAckDone(id)
  \/ \E id \in Ids : DupAckFail(id)
  \/ \E i \in 1..MaxExits : ExitStep(i)
  \/ \E i \in 1..MaxExits : ProcessExit(i)

SpecFair == InitFair /\ [][NextFair]_vars /\ Fairness

(***************************************************************************)
(* The hasher and the output message: one run without failures in which    *)
(* the subscription delivers two of the messages that exercise the hasher. *)
(***************************************************************************)
InitHash ==
  InitWith([msgs |-> MaxMsgs - 1, ticks |-> 0, runs |-> 1, faults |-> 0,
            timeouts |-> 0, exits |-> 0, late |-> 0, others |-> 0],
           {<<>>})

NextHash ==
  \/ Start
  \/ SeekDone
  \/ ReadTimeout
  \/ CloseReader
  \/ CacheCleanup
  \/ \E m \in HashMessages : Receive(m)
  \/ \E id \in Ids : SendDone(id)

SpecHash == InitHash /\ [][NextHash]_vars

(***************************************************************************)
(* The counters: one run in which sends and acknowledges may fail and the  *)
(* interval timer resets the counters.                                     *)
(***************************************************************************)
InitCount ==
  InitWith([msgs |-> MaxMsgs - 1, ticks |-> MaxTicks - 1, runs |-> 1,
            faults |-> MaxFaults, timeouts |-> 0, exits |-> MaxExits - 1,
            late |-> 0, others |-> 0],
           {<<>>})

NextCount ==
  \/ NextFair
  \/ LogInterval

SpecCount == InitCount /\ [][NextCount]_vars

(***************************************************************************)
(* Shutdown: one run in which signals arrive and broker operations fail    *)
(* while messages are in flight.                                           *)
(***************************************************************************)
InitExit ==
  InitWith([msgs |-> MaxMsgs - 1, ticks |-> 0, runs |-> 1, faults |-> MaxFaults,
            timeouts |-> 0, exits |-> MaxExits,
            late |-> 0, others |-> 0],
           {<<>>})

NextExit ==
  \/ NextFair
  \/ \E code \in SignalCodes : Signal(code)

SpecExit == InitExit /\ [][NextExit]_vars

(***************************************************************************)
(* Progress of the loop: one run in which nothing fails; the producer and  *)
(* the broker settle every send and every acknowledgement they are given.  *)
(***************************************************************************)
InitLive ==
  InitWith([msgs |-> MaxMsgs - 1, ticks |-> 0, runs |-> 1,
            faults |-> 0, timeouts |-> 0, exits |-> 0,
            late |-> 0, others |-> 0],
           Histories)

\* the steps of that run
NextLive ==
  \/ Start
  \/ SeekDone
  \/ ReadMessage
  \/ ReadTimeout
  \/ CloseReader
  \/ CacheCleanup
  \/ \E m \in SourceMessages : Receive(m)
  \/ \E id \in Ids : SendDone(id)
  \/ \E id \in Ids : AckDone(id)
  \/ \E id \in Ids : DupAckDone(id)

\* every send and every acknowledgement that has been issued completes
Settles ==
  \A id \in Ids :
    /\ WF_vars(SendDone(id))
    /\ WF_vars(AckDone(id))
    /\ WF_vars(DupAckDone(id))

SpecLive == InitLive /\ [][NextLive]_vars /\ Settles

(***************************************************************************)
(* Termination of warm-up: the destination topic does not grow, every read *)
(* of the cache reader returns (with a message, a timeout or an error) and *)
(* more timeouts and errors may be injected than warm-up tolerates.        *)
(***************************************************************************)
\* the destination topics: empty, one message without origin, and that
\* message followed by one that lists a digest
TermHistories ==
  LET d == CHOOSE x \in SourceDigests : TRUE
      m == historical(NoProperties, Epoch - 1000)
      n == historical([k \in {propertyName} |-> JSONstringify(<<d>>)], Epoch - 500)
  IN  {<<>>, <<m>>, <<m, n>>}

InitTerm ==
  InitWith([msgs |-> 0, ticks |-> 0, runs |-> 1,
            faults |-> MAX_NON_TIMEOUT_RETRIES + MaxFaults,
            timeouts |-> MAX_CONSECUTIVE_TIMEOUTS * MaxTimeouts,
            exits |-> 0, late |-> 0, others |-> 0],
           TermHistories)

NextTerm ==
  \/ Start
  \/ SeekDone
  \/ ReadMessage
  \/ ReadTimeout
  \/ ReadError
  \/ CloseReader
  \/ CacheCleanup

\* every awaited operation of the reader settles, and the timer of the cache
\* fires
ReaderSettles ==
  /\ WF_vars(SeekDone)
  /\ WF_vars(ReadMessage \/ ReadTimeout \/ ReadError)
  /\ WF_vars(CloseReader)
  /\ WF_vars(CacheCleanup)

SpecTerm == InitTerm /\ [][NextTerm]_vars /\ ReaderSettles

(***************************************************************************)
(* Classification of read failures: warm-up in which readNext rejects with *)
(* any of the values of ReadFailures.                                      *)
(***************************************************************************)
InitClass ==
  InitWith([msgs |-> 0, ticks |-> 0, runs |-> 1,
            faults |-> MAX_NON_TIMEOUT_RETRIES, timeouts |-> MaxTimeouts - 1,
            exits |-> 0, late |-> 0, others |-> 0],
           TermHistories)

NextClass ==
  \/ Start
  \/ SeekDone
  \/ ReadMessage
  \/ \E err \in ReadFailures : ReadFail(err)
  \/ CloseReader
  \/ CacheCleanup

SpecClass == InitClass /\ [][NextClass]_vars

(***************************************************************************)
(* A failed send: one run in which a send or an acknowledge may fail and   *)
(* time passes while the loop receives and while the process shuts down.   *)
(***************************************************************************)
InitRoll ==
  InitWith([msgs |-> MaxMsgs, ticks |-> MaxTicks, runs |-> 1,
            faults |-> MaxFaults, timeouts |-> 0, exits |-> MaxExits - 1,
            late |-> 0, others |-> 0],
           {<<>>})

NextRoll ==
  \/ NextFair
  \/ Tick

SpecRoll == InitRoll /\ [][NextRoll]_vars

(***************************************************************************)
(* Teardown: one run in which the start of the service, a broker operation *)
(* or a step of exitGracefully may fail and signals arrive.                *)
(***************************************************************************)
InitDown ==
  InitWith([msgs |-> MaxMsgs - 2, ticks |-> 0, runs |-> 1, faults |-> MaxFaults,
            timeouts |-> 0, exits |-> MaxExits - 1, late |-> 0, others |-> 0],
           {<<>>})

NextDown ==
  \/ Start
  \/ \E n \in 0..Len(Resources) - 1 : StartFail(n)
  \/ SeekDone
  \/ ReadTimeout
  \/ CloseReader
  \/ CacheCleanup
  \/ \E m \in SourceMessages : Receive(m)
  \/ ReceiveFail
  \/ \E id \in Ids : SendDone(id)
  \/ \E id \in Ids : SendFail(id)
  \/ \E id \in Ids : AckDone(id)
  \/ \E id \in Ids : AckFail(id)
  \/ \E code \in SignalCodes : Signal(code)
  \/ \E code \in SignalCodes : SignalHealthThrows(code)
  \/ \E i \in 1..MaxExits : ExitStep(i)
  \/ \E i \in 1..MaxExits : ExitStepFail(i)
  \/ \E i \in 1..MaxExits : ProcessExit(i)

\* every awaited step of exitGracefully settles, by resolving or by
\* rejecting, process.exit() ends the process, and the producer settles the
\* sends it has been given
TeardownSettles ==
  /\ \A i \in 1..MaxExits : WF_vars(ExitStep(i) \/ ExitStepFail(i))
  /\ \A i \in 1..MaxExits : WF_vars(ProcessExit(i))
  /\ WF_vars(\E id \in Ids : SendDone(id))

SpecDown == InitDown /\ [][NextDown]_vars /\ TeardownSettles

(***************************************************************************)
(* Restored digests: one run whose warm-up finds messages published at the *)
(* start of the warm-up window and later, may be delayed by the backoffs   *)
(* of read errors, and is followed by the loop.                            *)
(***************************************************************************)
RestoreHistories ==
  LET d == CHOOSE x \in SourceDigests : TRUE
      e == CHOOSE x \in SourceDigests : x # d
      m == historical([k \in {propertyName} |-> JSONstringify(<<d>>)],
                      startOf(Epoch))
      n == historical([k \in {propertyName} |-> JSONstringify(<<e>>)], Epoch - 500)
  IN  {<<m>>, <<m, n>>}

InitRestore ==
  InitWith([msgs |-> MaxMsgs - 1, ticks |-> MaxTicks - 1, runs |-> 1,
            faults |-> MAX_NON_TIMEOUT_RETRIES, timeouts |-> 0, exits |-> 0,
            late |-> 0, others |-> 0],
           RestoreHistories)

NextRestore ==
  \/ Next
  \/ ReadError

SpecRestore == InitRestore /\ [][NextRestore]_vars

(***************************************************************************)
(* Properties.                                                             *)
(***************************************************************************)
\* the digest of source message id
digestOfId(id) == digestOf(source[id].message)

\* the place of source message id among the messages received in this run
posIn(id) == CHOOSE k \in 1..Len(received) : received[k].id = id

\* the time at which the send for source message id was issued in this run
sentAt(id) == (CHOOSE e \in {sendLog[k] : k \in 1..Len(sendLog)} : e.id = id).at

\* the sends issued for digest d at time t or later
sendsSince(d, t) ==
  {k \in 1..Len(sendLog) : digestOfId(sendLog[k].id) = d /\ sendLog[k].at >= t}

\* C1: for every digest in the cache, at most one producer.send has been
\* issued for it since it was inserted, whatever the interleaving of
\* receives, send completions and acknowledge completions
C1_AtMostOneSendPerResidency ==
  \A i \in 1..Len(cache) :
    Cardinality(sendsSince(cache[i].value, cache[i].time)) <= 1

\* a digest that was forwarded, evicted, and forwarded again is in the cache
C1_Witness ==
  \E k1, k2 \in 1..Len(sendLog) :
    /\ k1 < k2
    /\ digestOfId(sendLog[k1].id) = digestOfId(sendLog[k2].id)
    /\ has(cache, digestOfId(sendLog[k2].id))

RECURSIVE firstOccurrences(_, _)
\* the messages of a sequence of received messages that are the first with
\* their fingerprint, seen being the fingerprints before the sequence
firstOccurrences(rcv, seen) ==
  IF rcv = <<>> THEN <<>>
  ELSE LET d == digestOfId(Head(rcv).id) IN
       IF d \in seen THEN firstOccurrences(Tail(rcv), seen)
       ELSE <<Head(rcv).id>> \o firstOccurrences(Tail(rcv), seen \cup {d})

\* warm-up found no message on the destination topic
emptyWarmUp == \A i \in 1..Len(dest) : dest[i].by = run

\* no digest inserted by the loop can have expired: the first message was
\* received less than a deduplication window ago
noExpiry == received # <<>> => now - received[1].at <= ttl

\* C2: after an empty warm-up and with no cache expiry, a send has been issued
\* for exactly the received messages that are the first with their
\* fingerprint, and every other received message has been acknowledged with
\* no send issued for it
C2_LoopCorrectness ==
  (emptyWarmUp /\ noExpiry) =>
    /\ [k \in 1..Len(sendLog) |-> sendLog[k].id] = firstOccurrences(received, {})
    /\ \A k \in 1..Len(received) :
         (\E j \in 1..k - 1 :
            digestOfId(received[j].id) = digestOfId(received[k].id))
         => task[received[k].id] \in {"dupAcking", "dupDone"}

\* three messages, the second a duplicate of the first, have been handled to
\* the end: two forwards
C2_Witness ==
  /\ emptyWarmUp /\ noExpiry
  /\ Len(received) = 3
  /\ digestOfId(1) = digestOfId(2)
  /\ digestOfId(1) # digestOfId(3)
  /\ task[1] = "done" /\ task[2] = "dupDone" /\ task[3] = "done"
  /\ Len(dest) = 2

\* C3: sends are issued in the order in which their messages were received,
\* and the destination topic holds the forwarded messages in that order,
\* whatever the order in which sends and acknowledges complete
C3_Ordering ==
  /\ \A k1, k2 \in 1..Len(sendLog) :
       k1 < k2 => posIn(sendLog[k1].id) < posIn(sendLog[k2].id)
  /\ \A i1, i2 \in 1..Len(dest) :
       (i1 < i2 /\ dest[i1].by = run /\ dest[i2].by = run)
       => posIn(dest[i1].src) < posIn(dest[i2].src)

\* two messages are on the destination topic while the acknowledge of the
\* earlier one is outstanding and that of the later one has completed
C3_Witness ==
  \E id1, id2 \in Ids :
    /\ id1 < id2
    /\ task[id1] = "acking" /\ task[id2] = "done"
    /\ \E i1, i2 \in 1..Len(dest) :
         i1 < i2 /\ dest[i1].src = id1 /\ dest[i2].src = id2

\* C4 as stated: a message received while the send of an earlier message
\* with the same digest is in flight is never forwarded
C4_Original ==
  \A id1, id2 \in Ids :
    (id1 # id2 /\ task[id1] = "sending" /\ task[id2] = "sending")
    => digestOfId(id1) # digestOfId(id2)

\* C4 (amended): a digest is in the cache when its send is issued and for a
\* deduplication window from then on, so a message with that digest
\* received in that window while the send is in flight is not forwarded
C4_InsertBeforeSend ==
  /\ \A id \in Ids :
       (task[id] = "sending" /\ now - sentAt(id) <= ttl)
       => has(cache, digestOfId(id))
  /\ \A id1, id2 \in Ids :
       (/\ id1 # id2
        /\ task[id1] = "sending" /\ task[id2] = "sending"
        /\ digestOfId(id1) = digestOfId(id2))
       => (sentAt(id2) - sentAt(id1) > ttl \/ sentAt(id1) - sentAt(id2) > ttl)

\* a duplicate has been received and not forwarded while the send of the first
\* message with its digest is in flight
C4_Witness ==
  \E id1, id2 \in Ids :
    /\ task[id1] = "sending"
    /\ task[id2] \in {"dupAcking", "dupDone"}
    /\ digestOfId(id1) = digestOfId(id2)
    /\ posIn(id1) < posIn(id2)

\* source message id is on the destination topic, forwarded by this run
forwardedNow(id) == \E k \in 1..Len(dest) : dest[k].src = id /\ dest[k].by = run

\* C5: the acknowledge of a forwarded message is issued only after its send
\* has completed; a message whose send failed is not acknowledged, and the
\* forwarded counter counts only completed send and acknowledge pairs
C5_SendThenAck ==
  /\ \A id \in Ids :
       /\ task[id] \in {"acking", "done", "ackFailed"} => forwardedNow(id)
       /\ task[id] = "sendFailed" => (~source[id].acked /\ ~forwardedNow(id))
  /\ counters.nRecentForwarded <= Cardinality({id \in Ids : task[id] = "done"})

\* one send has failed after another message was forwarded and acknowledged
C5_Witness ==
  \E id1, id2 \in Ids :
    /\ task[id1] = "done" /\ counters.nRecentForwarded = 1
    /\ task[id2] = "sendFailed"

\* the digest of source message id is listed in the origin of message k of the
\* destination topic
listedIn(id, k) ==
  \E n \in 1..Len(getDigests(dest[k])) : getDigests(dest[k])[n] = digestOfId(id)

\* C6 as stated: a message acknowledged as a duplicate has the fingerprint of
\* a message that was on the destination topic when the acknowledge was issued
C6_Original ==
  \A id \in Ids :
    (task[id] = "dupDone" /\ source[id].acked)
    => \E k \in 1..received[posIn(id)].seen : listedIn(id, k)

\* C6 (amended): every acknowledged message had its own send complete, or has
\* the fingerprint of a message that warm-up read from the destination topic
\* or of a message received earlier in this run whose send was issued; that
\* earlier message is on the destination topic or is still unacknowledged
C6_NoAckOfUnforwarded ==
  \A id \in Ids :
    /\ task[id] = "done" => (source[id].acked /\ forwardedNow(id))
    /\ task[id] = "dupDone"
       => /\ source[id].acked
          /\ \/ \E k \in 1..Len(dest) :
                  dest[k].by < run /\ k < warm.pos /\ listedIn(id, k)
             \/ \E k \in 1..Len(sendLog) :
                  LET first == sendLog[k].id IN
                  /\ posIn(first) < posIn(id)
                  /\ digestOfId(first) = digestOfId(id)
                  /\ (forwardedNow(first) \/ ~source[first].acked)

\* a duplicate has been acknowledged and the send of the first message with
\* its fingerprint has failed
C6_Witness ==
  \E id1, id2 \in Ids :
    /\ task[id1] = "sendFailed"
    /\ task[id2] = "dupDone" /\ source[id2].acked
    /\ digestOfId(id1) = digestOfId(id2)

\* a send or an acknowledge issued by the loop has failed
failed == \E id \in Ids : task[id] \in {"sendFailed", "ackFailed", "dupFailed"}

\* C7: when a send or an acknowledge issued by the loop fails, exitGracefully
\* has been entered by the unhandledRejection listener and the process
\* eventually exits with a non-zero exit code
C7_FailFast ==
  /\ [](failed => (exits # <<>> /\ exitCode # 0))
  /\ failed ~> (pc = "exited" /\ exitCode # 0)

\* the process has exited with exit code 1 after a failed acknowledge on the
\* forward path
C7_Witness ==
  /\ pc = "exited" /\ exitCode = 1
  /\ \E id \in Ids : task[id] = "ackFailed"

\* the sends and acknowledges that are outstanding
inFlight == {id \in Ids : task[id] \in {"sending", "acking", "dupAcking"}}

\* C8: whenever the loop is at consumer.receive() and the subscription has a
\* message to deliver, the message can be received, whichever sends and
\* acknowledges of earlier messages are outstanding
C8_ReceiveNeverWaits ==
  (/\ pc = "receive"
   /\ "consumer" \notin closed
   /\ pending = {}
   /\ Len(source) < lim.msgs)
  => ENABLED (\E m \in SourceMessages : Receive(m))

\* every received message is in flight at once, on the forward path and on the
\* duplicate path
C8_Witness ==
  /\ Cardinality(inFlight) = MaxMsgs
  /\ \E id \in Ids : task[id] = "sending"
  /\ \E id \in Ids : task[id] = "dupAcking"

\* message k of the destination topic lies inside the warm-up window
inWindow(k) ==
  /\ dest[k].publishTimestamp >= startOf(warm.cutoffTs)
  /\ dest[k].publishTimestamp <= warm.cutoffTs

\* source message id was received in this run
receivedNow(id) == \E j \in 1..Len(received) : received[j].id = id

\* source message id was not forwarded in this run
notForwardedAgain(id) == task[id] \in {"dupAcking", "dupDone", "dupFailed"}

\* C9 as stated: a redelivered message whose copy from an earlier run lies
\* inside the warm-up window is not forwarded again
C9_Original ==
  \A id \in Ids : \A k \in 1..Len(dest) :
    (/\ receivedNow(id)
     /\ dest[k].src = id /\ dest[k].by < run
     /\ inWindow(k))
    => notForwardedAgain(id)

\* C9 (amended): a redelivered message whose copy from an earlier run lies
\* inside the warm-up window, was read by warm-up before it stopped, and
\* which is received within a deduplication window of the start of warm-up,
\* is not forwarded again
C9_RestartDoesNotReforward ==
  \A id \in Ids : \A k \in 1..Len(dest) :
    (/\ receivedNow(id)
     /\ dest[k].src = id /\ dest[k].by < run
     /\ inWindow(k)
     /\ k < warm.pos
     /\ received[posIn(id)].at - warm.cutoffTs <= ttl)
    => notForwardedAgain(id)

\* the second run has acknowledged a redelivered message as a duplicate of the
\* copy the first run published, with no second copy on the destination topic
C9_Witness ==
  \E id \in Ids :
    /\ run = 2
    /\ task[id] = "dupDone" /\ source[id].acked
    /\ Cardinality({k \in 1..Len(dest) : dest[k].src = id}) = 1
    /\ \E k \in 1..Len(dest) : dest[k].src = id /\ dest[k].by = 1 /\ inWindow(k)

\* the cache holds every digest listed in the origin of message k of the
\* destination topic
cached(k) ==
  \A n \in 1..Len(getDigests(dest[k])) : has(cache, getDigests(dest[k])[n])

\* C10 as stated: when buildUpCache returns, the cache holds the digests of
\* every message of the destination topic inside the warm-up window
C10_Original ==
  pc = "close" => \A k \in 1..Len(dest) : inWindow(k) => cached(k)

\* C10 (amended): when buildUpCache returns within a deduplication window of
\* its start, the cache holds the digests of every message inside the warm-up
\* window that warm-up read before it stopped
C10_WarmUpCompleteness ==
  (pc = "close" /\ now - warm.cutoffTs <= ttl)
  => \A k \in 1..Len(dest) : (inWindow(k) /\ k < warm.pos) => cached(k)

\* warm-up of the second run has read the destination topic to its end: a
\* message inside the window is cached, one before the window is not
C10_Witness ==
  /\ pc = "close" /\ run = 2
  /\ now - warm.cutoffTs <= ttl
  /\ warm.pos > Len(dest)
  /\ \E k \in 1..Len(dest) : inWindow(k) /\ cached(k)
  /\ \E k \in 1..Len(dest) : ~inWindow(k) /\ ~cached(k)

\* buildUpCache has not returned
warmingUp == pc \in {"main", "seek", "read", "close"}

\* the cache gains an entry or an entry gets a new insertion time
inserts ==
  \E i \in 1..Len(cache') : \A j \in 1..Len(cache) : cache[j] # cache'[i]

\* C11: no source message is received before buildUpCache has returned,
\* buildUpCache is entered once per process (from the start of
\* keepDeduplicating only, and a process starts once), and after it has
\* returned every insertion into the cache is made by the loop for the
\* message it has just received
C11_WarmUpOnceBeforeLoop ==
  /\ [](warmingUp => (received = <<>> /\ sendLog = <<>>))
  /\ [][(pc' = "seek" /\ pc # "seek") => pc = "main"]_vars
  /\ [][(pc' = "main" /\ pc # "main") => run' = run + 1]_vars
  /\ [][(~warmingUp /\ run' = run /\ inserts)
        => /\ Len(received') = Len(received) + 1
           /\ \A i \in 1..Len(cache') :
                (\A j \in 1..Len(cache) : cache[j] # cache'[i])
                => /\ cache'[i].value =
                        digestOf(source'[received'[Len(received')].id].message)
                   /\ cache'[i].time = now]_vars

\* in the second run the cache holds a digest that warm-up restored and,
\* after it, a digest that the loop inserted
C11_Witness ==
  /\ run = 2 /\ pc = "receive" /\ warm.closeCalled
  /\ Len(received) = 1
  /\ Len(cache) = 2
  /\ cache[1].time < received[1].at
  /\ cache[2].time = received[1].at

\* buildUpCache has been entered and has not returned
inBuildUpCache == pc \in {"seek", "read", "close"}

\* C12 as stated: whatever the reader operations of warm-up do, buildUpCache
\* is left by returning to keepDeduplicating, which enters its loop
C12_Original ==
  [][(inBuildUpCache /\ pc' # pc /\ pc' \notin {"seek", "read", "close"})
     => pc' = "receive"]_vars

\* C13 as stated: once warm-up has been left, on whatever way,
\* buildUpCache has called cacheReader.close()
C13_Original ==
  pc \in {"receive", "stopped", "exited"} => warm.closeCalled

\* the origin of a message is a JSON array of non-empty strings
wellFormed(message) ==
  /\ propertyName \in DOMAIN message.properties
  /\ message.properties[propertyName] \in WellFormedOrigins

\* the digests that a well-formed origin lists
listed(message) ==
  CHOOSE ds \in DigestLists : JSONstringify(ds) = message.properties[propertyName]

\* buildUpCache reads a message that is not past the cutoff
readsInTime ==
  /\ pc = "read" /\ warm'.pos = warm.pos + 1
  /\ effectiveTs(dest[warm.pos]) <= warm.cutoffTs

\* C14: reading a historical message whose origin is absent, no JSON, or no
\* array of non-empty strings leaves the cache as it is and warm-up goes on
\* to the next message; reading one with a well-formed origin leaves every
\* listed digest in the cache
C14_MalformedOriginTolerated ==
  [][readsInTime =>
       /\ pc' = "read"
       /\ IF wellFormed(dest[warm.pos])
          THEN \A n \in 1..Len(listed(dest[warm.pos])) :
                 \E i \in 1..Len(cache') :
                   /\ cache'[i].value = listed(dest[warm.pos])[n]
                   /\ cache'[i].time = now
          ELSE cache' = cache /\ cacheTo' = cacheTo]_vars

\* warm-up has read a message whose origin lists a digest and then an empty
\* string, the cache is still empty, and the next message can be read
C14_Witness ==
  /\ pc = "read" /\ warm.pos = 2 /\ Len(dest) = 2
  /\ dest[1].properties = [k \in {propertyName} |->
       JSONstringify(<<CHOOSE x \in SourceDigests : TRUE, <<>>>>)]
  /\ cache = <<>>
  /\ ENABLED ReadMessage

\* C15 as stated: warm-up stops on timeouts only when the last three reads
\* in a row have timed out
C15_Original == warm.left = "timeouts" => warm.streak = MAX_CONSECUTIVE_TIMEOUTS

\* C15 (amended): warm-up goes on reading while fewer than 3 reads have timed
\* out since the last message was read, and stops on timeouts exactly when
\* there are 3 (read errors between them do not reset the count, a message
\* read does); the stop keeps the cache and leads to close
C15_TimeoutHandling ==
  /\ [](pc = "read" => warm.sinceRead < MAX_CONSECUTIVE_TIMEOUTS)
  /\ [](warm.left = "timeouts" => warm.sinceRead = MAX_CONSECUTIVE_TIMEOUTS)
  /\ [][(pc = "read" /\ warm'.sinceRead = MAX_CONSECUTIVE_TIMEOUTS)
        => (pc' = "close" /\ warm'.left = "timeouts" /\ cache' = cache)]_vars
  /\ [][(pc = "read" /\ warm'.pos = warm.pos + 1 /\ pc' = "read")
        => warm'.consecutiveTimeouts = 0]_vars

\* two reads timed out before the only message was read, which reset the
\* count; then warm-up stopped on three timeouts with a read error between
\* them, and the loop has been entered
C15_Witness ==
  /\ pc = "receive" /\ warm.left = "timeouts"
  /\ Len(dest) = 1 /\ warm.pos = 2
  /\ used.timeouts = 2
  /\ warm.streak < MAX_CONSECUTIVE_TIMEOUTS
  /\ warm.nonTimeoutRetries > 0

\* warm-up was aborted by the bound on read errors and the loop is about to
\* start
abortedOnErrors == pc = "receive" /\ warm.left = "errors" /\ received = <<>>

\* C16 as stated (its last part): after an abort on read errors every digest
\* inserted before the abort is in the cache when the loop starts
C16_Original ==
  abortedOnErrors
  => \A i \in 1..Len(warm.restored) : has(cache, warm.restored[i].value)

\* C16 (amended): a read error makes warm-up wait for the backoff and read
\* the same position again, unless 5 read errors have occurred or 60 s have
\* passed since the start of warm-up, when it stops and closes the reader;
\* after such an abort the loop starts with every inserted digest in the
\* cache after whose insertion no other insertion came later than one
\* deduplication window
C16_BoundedRetry ==
  /\ [][(pc = "read" /\ used'.faults = used.faults + 1)
        => /\ now' - now >= BASE_BACKOFF_MS
           /\ cache' = cache
           /\ warm'.pos = warm.pos
           /\ IF \/ used'.faults >= MAX_NON_TIMEOUT_RETRIES
                 \/ now' - warm.cutoffTs >= MAX_WARMUP_MS
              THEN pc' = "close" /\ warm'.left = "errors"
              ELSE pc' = "read"]_vars
  /\ [](abortedOnErrors
        => /\ warm.closeCalled
           /\ \A i \in 1..Len(warm.restored) :
                (\A j \in 1..Len(warm.restored) :
                   warm.restored[j].time - warm.restored[i].time <= ttl)
                => has(cache, warm.restored[i].value))

\* warm-up was aborted by the time bound after fewer than 5 read errors, and
\* the loop starts with the digests read before in the cache
C16_Witness ==
  /\ abortedOnErrors
  /\ warm.nonTimeoutRetries < MAX_NON_TIMEOUT_RETRIES
  /\ now - warm.cutoffTs >= MAX_WARMUP_MS
  /\ cache # <<>>
  /\ \A i \in 1..Len(warm.restored) : has(cache, warm.restored[i].value)

\* C17 as stated: in no reachable state is health OK while warm-up has not
\* finished
C17_Original == health => ~warmingUp

C19_Original == pc = "exited" => exitCode = exits[1].code

\* the digest of the k-th message received was inserted into the cache, by
\* the loop or by warm-up, at most one deduplication window before
insertedInWindow(k) ==
  \/ \E j \in 1..k - 1 :
       /\ digestOfId(received[j].id) = digestOfId(received[k].id)
       /\ received[k].at - received[j].at <= ttl
  \/ \E i \in 1..Len(warm.restored) :
       /\ warm.restored[i].value = digestOfId(received[k].id)
       /\ received[k].at - warm.restored[i].time <= ttl

\* C20 as stated: a digest is absent from the cache once its window has
\* elapsed, so a message is treated as a duplicate only of an insertion made
\* at most one deduplication window before
C20_Original ==
  /\ \A i \in 1..Len(cache) : now - cache[i].time <= ttl
  /\ \A k \in 1..Len(received) :
       task[received[k].id] \in {"dupAcking", "dupDone", "dupFailed"}
       => insertedInWindow(k)

\* the (key, value) pairs of the properties of a message whose key is not
\* ignored
keptPairs(message) ==
  {<<k, message.properties[k]>> : k \in DOMAIN message.properties \ ignoredProperties}

\* C21: two received messages with the same payload and the same set of
\* non-ignored (key, value) pairs have the same hash, whatever their event
\* timestamps, their ignored properties and the order in which their
\* property keys were inserted; the later one is treated as a duplicate
C21_FingerprintInsensitivity ==
  \A id1, id2 \in 1..Len(source) :
    (/\ id1 < id2
     /\ source[id1].message.data = source[id2].message.data
     /\ keptPairs(source[id1].message) = keptPairs(source[id2].message))
    => /\ calculateHash(source[id1].message) = calculateHash(source[id2].message)
       /\ task[id2] = "dupAcking"

\* two messages with the same payload and the same two kept properties,
\* inserted in opposite orders, one of them with an ignored property, with
\* different event timestamps: the second has been treated as a duplicate
C21_Witness ==
  /\ Len(source) = 2
  /\ LET m1 == source[1].message
         m2 == source[2].message
     IN  /\ m1.data = m2.data
         /\ keptPairs(m1) = keptPairs(m2)
         /\ Cardinality(keptPairs(m1)) = 2
         /\ keptProperties(m1) # keptProperties(m2)
         /\ DOMAIN m1.properties # DOMAIN m2.properties
         /\ m1.eventTimestamp # m2.eventTimestamp
  /\ task[1] = "sending"
  /\ task[2] = "dupAcking"

\* two received messages differ in payload or in a non-ignored (key, value)
\* pair
differ(id1, id2) ==
  \/ source[id1].message.data # source[id2].message.data
  \/ keptPairs(source[id1].message) # keptPairs(source[id2].message)

\* C22: two received messages that differ in payload or in a non-ignored
\* (key, value) pair have different hash inputs and different digests, and a
\* message that differs so from every message received before it is forwarded
C22_FingerprintSensitivity ==
  /\ \A id1, id2 \in 1..Len(source) :
       (id1 < id2 /\ differ(id1, id2))
       => /\ calculateHash(source[id1].message) # calculateHash(source[id2].message)
          /\ digestOfId(id1) # digestOfId(id2)
  /\ \A id2 \in 1..Len(source) :
       (\A id1 \in 1..id2 - 1 : differ(id1, id2))
       => task[id2] \in {"sending", "acking"}

\* two messages with the same payload, the same ignored property and the same
\* event timestamp that differ in the value of one kept property have both
\* been forwarded
C22_Witness ==
  /\ Len(source) = 2
  /\ LET m1 == source[1].message
         m2 == source[2].message
     IN  /\ m1.data = m2.data
         /\ m1.eventTimestamp = m2.eventTimestamp
         /\ m1.order = m2.order
         /\ <<"c">> \in DOMAIN m1.properties
         /\ \E k \in DOMAIN m1.properties \ ignoredProperties :
              /\ m1.properties[k] # m2.properties[k]
              /\ \A j \in DOMAIN m1.properties \ {k} :
                   m1.properties[j] = m2.properties[j]
  /\ task[1] = "acking"
  /\ task[2] = "acking"
  /\ Len(dest) = 2

C24_ForwardedContent ==
  \A j \in 1..Len(dest) :
    dest[j].by # 0
    => LET m == source[dest[j].src].message
           out == dest[j]
       IN  /\ out.data = m.data
           /\ out.eventTimestamp = m.eventTimestamp
           /\ DOMAIN out.properties = DOMAIN m.properties \cup {propertyName}
           /\ \A k \in DOMAIN m.properties \ {propertyName} :
                out.properties[k] = m.properties[k]
           /\ out.properties[propertyName]
                = <<"[", Quote>> \o digestOf(m) \o <<Quote, "]">>

\* a message with an ignored property and a message that carried a property
\* named origin have been forwarded; the origin of the second has been
\* replaced
C24_Witness ==
  /\ Len(dest) = 2
  /\ dest[1].by # 0 /\ dest[2].by # 0
  /\ <<"c">> \in DOMAIN source[dest[1].src].message.properties
  /\ <<"c">> \in DOMAIN dest[1].properties
  /\ propertyName \in DOMAIN source[dest[2].src].message.properties
  /\ dest[2].properties[propertyName]
       # source[dest[2].src].message.properties[propertyName]

\* the membership set of the cache
members(map) == {map[i].value : i \in 1..Len(map)}

countersReset ==
  /\ counters'.logAt # counters.logAt
  /\ counters'.nRecentForwarded = 0
  /\ counters'.nRecentDropped = 0

\* C26: the forwarded counter changes only by a reset or by one when the
\* acknowledge of a message whose send has completed completes, and every
\* such completion counts; between resets it never exceeds the number of
\* messages sent and acknowledged; the dropped counter changes only by a
\* reset or by one when a received message is found in the cache and its
\* acknowledge is issued, and every such message counts; whether a received
\* message is forwarded depends on the cache alone
C26_Counters ==
  /\ [][/\ counters'.nRecentForwarded # counters.nRecentForwarded
           => \/ countersReset
              \/ /\ counters'.nRecentForwarded = counters.nRecentForwarded + 1
                 /\ \E id \in Ids :
                      /\ task[id] = "acking" /\ task'[id] = "done"
                      /\ forwardedNow(id) /\ source'[id].acked
        /\ \A id \in Ids :
             (task[id] = "acking" /\ task'[id] = "done")
             => counters'.nRecentForwarded = counters.nRecentForwarded + 1
        /\ counters'.nRecentDropped # counters.nRecentDropped
           => \/ countersReset
              \/ /\ counters'.nRecentDropped = counters.nRecentDropped + 1
                 /\ \E id \in Ids :
                      /\ task[id] = "idle" /\ task'[id] = "dupAcking"
                      /\ has(cache, digestOf(source'[id].message))
        /\ \A id \in Ids :
             (task[id] = "idle" /\ task'[id] = "dupAcking")
             => counters'.nRecentDropped = counters.nRecentDropped + 1
        /\ \A id \in Ids :
             (task[id] = "idle" /\ task'[id] # "idle")
             => (task'[id] = "sending"
                   <=> ~has(cache, digestOf(source'[id].message)))]_vars
  /\ [](/\ counters.nRecentForwarded
             <= Cardinality({id \in Ids : task[id] = "done" /\ source[id].acked
                                          /\ forwardedNow(id)})
        /\ counters.nRecentDropped
             <= Cardinality({id \in Ids : notForwardedAgain(id)}))

\* one message has been forwarded and acknowledged and its duplicate dropped;
\* the counters were reset after the first and count the duplicate only
C26_Witness ==
  /\ task[1] = "done" /\ task[2] = "dupDone"
  /\ counters.nRecentForwarded = 0
  /\ counters.nRecentDropped = 1
  /\ now > Epoch + 1000 * logIntervalInSeconds

\* the positions of the destination topic that warm-up has read
readSoFar ==
  IF pc \in {"main", "seek"} THEN {}
  ELSE seekTimestamp(dest, startOf(warm.cutoffTs)) .. warm.pos - 1

\* C27: getDigests applied to a message that the loop forwarded returns the
\* one digest that the loop computed and inserted for its source message; the
\* digests that warm-up has inserted are exactly the digests of the source
\* messages of the forwarded messages it has read
C27_OriginRoundTrip ==
  /\ \A j \in 1..Len(dest) :
       dest[j].by # 0
       => LET d == digestOf(source[dest[j].src].message) IN
          /\ getDigests(dest[j]) = <<d>>
          /\ dest[j].by = run => \E k \in 1..Len(sendLog) :
                                   /\ sendLog[k].id = dest[j].src
                                   /\ sendLog[k].at <= dest[j].publishTimestamp
  /\ (\A j \in readSoFar : dest[j].by # 0 /\ effectiveTs(dest[j]) <= warm.cutoffTs)
     => {warm.restored[i].value : i \in 1..Len(warm.restored)}
          = {digestOf(source[dest[j].src].message) : j \in readSoFar}

\* the second process instance has read, in warm-up, a message that the first
\* instance forwarded, and has restored its digest
C27_Witness ==
  /\ run = 2
  /\ pc = "receive"
  /\ readSoFar # {}
  /\ \A j \in readSoFar : dest[j].by = 1
  /\ Len(warm.restored) = 1
  /\ has(cache, digestOf(source[dest[warm.pos - 1].src].message))

\* the digests of a sequence, as a set
asSet(seq) == {seq[i] : i \in 1..Len(seq)}

\* C28: when warm-up reads a message, it compares with the cutoff the publish
\* timestamp if that is positive and the event timestamp otherwise; a message
\* beyond the cutoff ends the reading and leaves the cache as it is, and
\* nothing is read or inserted afterwards; the digests of a message that is
\* not beyond the cutoff are inserted and the reading goes on
C28_Cutoff ==
  /\ [][(pc = "read" /\ warm'.pos = warm.pos + 1)
        => LET msg == dest[warm.pos]
               ts == IF msg.publishTimestamp > 0 THEN msg.publishTimestamp
                     ELSE msg.eventTimestamp
           IN  IF ts > warm.cutoffTs
               THEN /\ pc' = "close"
                    /\ warm'.left = "past"
                    /\ cache' = cache
                    /\ warm'.restored = warm.restored
               ELSE /\ pc' = "read"
                    /\ asSet(getDigests(msg)) \subseteq members(cache')
                    /\ asSet(getDigests(msg))
                         \subseteq {warm'.restored[i].value :
                                      i \in 1..Len(warm'.restored)}]_vars
  /\ [][warm.left = "past"
        => (warm'.pos = warm.pos /\ warm'.restored = warm.restored
            /\ pc' # "read")]_vars

\* warm-up has inserted the digest of the first message, has stopped at a
\* second message without publish timestamp whose event timestamp is after
\* the cutoff, has not inserted its digest and has left the third message
\* unread
C28_Witness ==
  /\ pc = "receive"
  /\ warm.left = "past"
  /\ Len(dest) >= 3
  /\ warm.pos = 3
  /\ dest[2].publishTimestamp = 0
  /\ dest[2].eventTimestamp > warm.cutoffTs
  /\ asSet(getDigests(dest[1])) = members(cache)
  /\ ~has(cache, getDigests(dest[2])[1])

\* C29: when the loop receives a message whose digest is in the cache, the
\* cache and its cleanup timer stay as they are; when the digest is not in
\* the cache, it is appended with the present time; so every entry of the
\* cache carries the time of a reception that was forwarded or of a restore
\* by warm-up, and never the time of a duplicate
C29_InsertAtFirstSight ==
  /\ [][Len(received') = Len(received) + 1
        => LET d == digestOf(source'[received'[Len(received')].id].message) IN
           IF has(cache, d)
           THEN cache' = cache /\ cacheTo' = cacheTo
           ELSE cache' = Append(cache, [value |-> d, time |-> now])]_vars
  /\ [](\A i \in 1..Len(cache) :
          \/ \E k \in 1..Len(received) :
               /\ digestOfId(received[k].id) = cache[i].value
               /\ received[k].at = cache[i].time
               /\ ~notForwardedAgain(received[k].id)
          \/ \E j \in 1..Len(warm.restored) :
               warm.restored[j] = cache[i])

\* a duplicate has been received a clock step after the first message with
\* its digest: the entry of the digest still carries the time of the first
C29_Witness ==
  \E k1, k2 \in 1..Len(received) :
    /\ k1 < k2
    /\ digestOfId(received[k1].id) = digestOfId(received[k2].id)
    /\ received[k2].at > received[k1].at
    /\ task[received[k2].id] = "dupAcking"
    /\ \E i \in 1..Len(cache) :
         /\ cache[i].value = digestOfId(received[k2].id)
         /\ cache[i].time = received[k1].at

\* the time elapsed since warm-up started
elapsedMs == now - warm.cutoffTs

\* C30 as stated: once 60 s have elapsed since warm-up started, warm-up reads
\* no more
C30_Original == pc = "read" => elapsedMs < MAX_WARMUP_MS

\* C30 (amended): warm-up goes on reading with 60 s or more elapsed only after
\* a read that ended with a message or with a timeout; after the backoff of a
\* read error it stops
C30_ElapsedBudget ==
  [][(pc = "read" /\ pc' = "read" /\ now' - warm.cutoffTs >= MAX_WARMUP_MS)
     => /\ warm'.nonTimeoutRetries = warm.nonTimeoutRetries
        /\ used'.faults = used.faults]_vars

\* warm-up has had a read error, more than 60 s have elapsed since it
\* started, and it is reading on
C30_Witness ==
  /\ pc = "read"
  /\ elapsedMs >= MAX_WARMUP_MS
  /\ warm.nonTimeoutRetries > 0
  /\ warm.consecutiveTimeouts > 0

\* source message id has been received by the loop in this run
handled(id) == task[id] # "idle"

\* C31: when every send and every acknowledge completes, every message the
\* loop has received is eventually acknowledged; the acknowledgement of a
\* message completes once, for a message that was unacknowledged (a first
\* occurrence after its own send has completed, a duplicate with no send),
\* and an acknowledged message stays acknowledged
C31_EventuallyAcknowledged ==
  /\ \A id \in Ids :
       handled(id) ~> (task[id] \in {"done", "dupDone"} /\ source[id].acked)
  /\ [][\A id \in 1..Len(source) :
          /\ source[id].acked => (source'[id].acked /\ task'[id] = task[id])
          /\ (~source[id].acked /\ source'[id].acked)
             => \/ /\ task[id] = "acking" /\ task'[id] = "done"
                   /\ forwardedNow(id)
                \/ /\ task[id] = "dupAcking" /\ task'[id] = "dupDone"
                   /\ ~forwardedNow(id)
                   /\ \A k \in 1..Len(sendLog) : sendLog[k].id # id]_vars

\* a first occurrence and its duplicate have both been acknowledged, the
\* duplicate before the send of the first occurrence completed
C31_Witness ==
  /\ Len(source) >= 2
  /\ source[1].acked /\ source[2].acked
  /\ task[1] = "done" /\ task[2] = "dupDone"
  /\ digestOfId(1) = digestOfId(2)
  /\ dest[Len(dest)].src = 1

\* a bound on the reads warm-up may still make: three for every message left
\* on the topic, the timeouts left before the third in a row, and the read
\* errors left before the fifth
readsLeft ==
  MAX_CONSECUTIVE_TIMEOUTS * (Len(dest) + 1 - warm.pos)
  + (MAX_CONSECUTIVE_TIMEOUTS - warm.consecutiveTimeouts)
  + (MAX_NON_TIMEOUT_RETRIES - warm.nonTimeoutRetries)

\* C32: on a destination topic that does not grow, every read that returns,
\* with a message, a timeout or an error, lowers a bound on the reads left
\* that stays positive while warm-up reads, so no alternation of outcomes
\* keeps warm-up reading; when every read returns, buildUpCache returns, and
\* it is never the number of timeouts and errors injected that ends it
C32_WarmUpTerminates ==
  /\ [](pc = "read" => readsLeft > 0)
  /\ [][(pc = "read" /\ warm' # warm) => readsLeft' < readsLeft]_vars
  /\ [](pc \in {"seek", "read"}
        => (used.faults < lim.faults /\ used.timeouts < lim.timeouts))
  /\ (pc \in {"seek", "read", "close"}) ~> (pc = "receive")

\* buildUpCache has returned after timeouts, read errors and messages
\* alternated: both messages of the topic were read, each after two timeouts
\* and a read error
C32_Witness ==
  /\ pc = "receive"
  /\ Len(dest) = 2 /\ warm.pos = 3
  /\ used.timeouts = 4
  /\ warm.nonTimeoutRetries >= 2
  /\ warm.left = "timeouts"

\* the read errors of this warm-up so far
readErrors == used.faults

\* C33: nonTimeoutRetries counts every read error of the warm-up: a read
\* that ends with a message or a timeout leaves it as it is, and the fifth
\* read error ends warm-up with an abort, whatever was read between the
\* errors
C33_CumulativeErrors ==
  /\ [](pc = "read"
        => /\ warm.nonTimeoutRetries = readErrors
           /\ warm.nonTimeoutRetries < MAX_NON_TIMEOUT_RETRIES)
  /\ [][(pc = "read" /\ used'.faults = used.faults)
        => warm'.nonTimeoutRetries = warm.nonTimeoutRetries]_vars
  /\ [][(pc = "read" /\ used'.faults = MAX_NON_TIMEOUT_RETRIES
                     /\ used.faults < MAX_NON_TIMEOUT_RETRIES)
        => (pc' = "close" /\ warm'.left = "errors")]_vars

\* warm-up was aborted at its fifth read error, within the 60 s; a message
\* was read after the backoff of the first error and before the others,
\* and a timeout was seen on the way
C33_Witness ==
  /\ warm.left = "errors"
  /\ warm.nonTimeoutRetries = MAX_NON_TIMEOUT_RETRIES
  /\ elapsedMs < MAX_WARMUP_MS
  /\ warm.consecutiveTimeouts > 0
  /\ warm.restored # <<>>
  /\ warm.restored[1].time = warm.cutoffTs + BASE_BACKOFF_MS

\* C34: a read error leaves consecutiveTimeouts as it is; the count is the
\* number of timeouts since the last message read at or before the cutoff,
\* and only such a read sets it back to zero, so the third timeout since
\* then ends warm-up as complete, whatever read errors came between
C34_ErrorKeepsTimeoutCount ==
  /\ [](warm.consecutiveTimeouts = warm.sinceRead)
  /\ [](pc = "read" => warm.consecutiveTimeouts < MAX_CONSECUTIVE_TIMEOUTS)
  /\ [][(pc = "read" /\ used'.faults # used.faults)
        => warm'.consecutiveTimeouts = warm.consecutiveTimeouts]_vars
  /\ [][(warm.consecutiveTimeouts > 0 /\ warm'.consecutiveTimeouts = 0)
        => /\ pc = "read" /\ pc' = "read"
           /\ warm'.pos = warm.pos + 1
           /\ effectiveTs(dest[warm.pos]) <= warm.cutoffTs]_vars
  /\ [][(pc = "read" /\ warm'.consecutiveTimeouts = MAX_CONSECUTIVE_TIMEOUTS
                     /\ warm.consecutiveTimeouts < MAX_CONSECUTIVE_TIMEOUTS)
        => (pc' = "close" /\ warm'.left = "timeouts")]_vars

\* warm-up has ended as complete on three timeouts with a read error after
\* the first and after the second of them
C34_Witness ==
  /\ pc = "receive"
  /\ warm.left = "timeouts"
  /\ warm.consecutiveTimeouts = MAX_CONSECUTIVE_TIMEOUTS
  /\ warm.streak = 1
  /\ warm.nonTimeoutRetries = 2
  /\ now - warm.cutoffTs
       = MAX_CONSECUTIVE_TIMEOUTS * READ_TIMEOUT_MS + backoffMs(0) + backoffMs(1)
  /\ \A i \in 1..Len(warm.restored) : warm.restored[i].time = warm.cutoffTs

\* the lower-case form of a letter of the word timeout
lowerCase(ch) ==
  CASE ch = "T" -> "t"
    [] ch = "I" -> "i"
    [] ch = "M" -> "m"
    [] ch = "E" -> "e"
    [] ch = "O" -> "o"
    [] ch = "U" -> "u"
    [] OTHER -> ch

\* the text contains the word timeout in some letter case
containsTimeout(text) ==
  \E i, j \in 1..Len(text) :
    [k \in 1..j - i + 1 |-> lowerCase(text[i + k - 1])]
      = <<"t", "i", "m", "e", "o", "u", "t">>

\* the failure is one the claim calls a timeout
namesTimeout(err) ==
  /\ err.kind = "object"
  /\ \/ err.name = str(TimeoutError)
     \/ err.code = str(Timeout)
     \/ (err.message.type = "string" /\ containsTimeout(err.message.val))

\* C35: when readNext rejects, the failure is handled as a timeout (counted
\* in consecutiveTimeouts, no backoff) if and only if its name is
\* TimeoutError, its code is Timeout, or its message is a string that
\* contains timeout in any letter case; every other failure is handled as a
\* read error (counted in nonTimeoutRetries, after the backoff); no failure
\* leaves buildUpCache: warm-up reads on or goes on to close the reader, and
\* the exit handler is not called
C35_Classification ==
  [][\A err \in ReadFailures :
       ReadFail(err)
       => /\ namesTimeout(err)
             => /\ warm'.consecutiveTimeouts = warm.consecutiveTimeouts + 1
                /\ warm'.nonTimeoutRetries = warm.nonTimeoutRetries
                /\ now' = now + READ_TIMEOUT_MS
          /\ ~namesTimeout(err)
             => /\ warm'.nonTimeoutRetries = warm.nonTimeoutRetries + 1
                /\ warm'.consecutiveTimeouts = warm.consecutiveTimeouts
                /\ now' = now + backoffMs(warm.nonTimeoutRetries)
          /\ pc' \in {"read", "close"}
          /\ exits' = exits /\ exitCode' = exitCode]_vars

\* reads have failed with timeouts and with other errors while a message is
\* left to read, and readNext may reject again, with a timeout that only its
\* message names or with an error whose name is close to that of a timeout
C35_Witness ==
  /\ pc = "read"
  /\ warm.pos <= Len(dest)
  /\ warm.consecutiveTimeouts > 0
  /\ warm.nonTimeoutRetries > 0
  /\ \E e1, e2 \in ReadFailures :
       /\ isTimeout(e1) /\ e1.name = str(ErrorName) /\ e1.code = undefined
       /\ ~isTimeout(e2) /\ e2.name = str(<<"t", "i", "m", "e", "o", "u", "t", "e", "r", "r", "o", "r">>)
       /\ ENABLED ReadFail(e1)
       /\ ENABLED ReadFail(e2)

\* source message id2 was received after source message id, with its digest
laterSame(id, id2) ==
  /\ receivedNow(id) /\ receivedNow(id2)
  /\ posIn(id) < posIn(id2)
  /\ digestOfId(id) = digestOfId(id2)

\* C36 as stated: the digest of a message whose send failed stays in the
\* cache, and every message with that digest received afterwards is
\* acknowledged without being forwarded
C36_Original ==
  \A id \in Ids :
    task[id] = "sendFailed"
    => /\ has(cache, digestOfId(id))
       /\ \A id2 \in Ids :
            laterSame(id, id2) => task[id2] \in {"dupAcking", "dupDone", "dupFailed"}

\* C36 (amended): the failure of a send leaves the cache as it is and the
\* message unacknowledged and unforwarded; the digest stays in the cache for
\* a deduplication window from its insertion, and a message with that digest
\* received in that window is acknowledged with no send issued for it; the
\* loop can receive for as long as the consumer is not closed
C36_NoRollback ==
  /\ [][\A id \in Ids :
          (task[id] = "sending" /\ task'[id] = "sendFailed") => cache' = cache]_vars
  /\ [](\A id \in Ids :
          task[id] = "sendFailed"
          => /\ ~source[id].acked /\ ~forwardedNow(id)
             /\ now - sentAt(id) <= ttl => has(cache, digestOfId(id))
             /\ \A id2 \in Ids :
                  (laterSame(id, id2) /\ received[posIn(id2)].at - sentAt(id) <= ttl)
                  => /\ task[id2] \in {"dupAcking", "dupDone", "dupFailed"}
                     /\ \A k \in 1..Len(sendLog) : sendLog[k].id # id2
             /\ (pc = "receive" /\ "consumer" \notin closed /\ Len(source) < lim.msgs)
                => ENABLED (\E m \in SourceMessages : Receive(m)))

\* the send of a first occurrence has failed, the process is shutting down,
\* and a message with the same digest received after the failure has been
\* acknowledged as a duplicate
C36_Witness ==
  \E id, id2 \in Ids :
    /\ task[id] = "sendFailed" /\ ~source[id].acked
    /\ exits # <<>> /\ pc # "exited"
    /\ laterSame(id, id2)
    /\ task[id2] = "dupDone" /\ source[id2].acked
    /\ received[posIn(id2)].at > sentAt(id)
    /\ has(cache, digestOfId(id))

\* the awaited steps of exitGracefully that an invocation with the resources
\* args has to start
stepsFor(args) ==
  {s \in {"closeConsumer", "closeReader", "flush", "closeProducer",
          "closeClient", "closeHealth"} : uses(s) \subseteq args}

\* C37: an invocation of exitGracefully starts only steps whose resource
\* exists and has started every one of them when it reaches process.exit(),
\* also when one of them (or setHealthOk) has failed; such a failure calls no
\* exit handler and ends nothing; when every step settles, the process
\* exits
C37_ShutdownReachesExit ==
  /\ [](\A i \in 1..Len(exits) :
          /\ exits[i].called \subseteq stepsFor(exits[i].args)
          /\ exits[i].step = "exit" => exits[i].called = stepsFor(exits[i].args))
  /\ [][\A i \in 1..MaxExits :
          ExitStepFail(i) => (Len(exits') = Len(exits) /\ pc' = pc
                              /\ exitCode' = exitCode)]_vars
  /\ (exits # <<>>) ~> (pc = "exited")

\* the process has exited after consumer.close() failed in the only
\* invocation of exitGracefully: the consumer is not closed, and the
\* producer, the client and the health check server are
C37_Witness ==
  /\ pc = "exited"
  /\ Len(exits) = 1
  /\ exits[1].args = {Resources[n] : n \in 1..Len(Resources)}
  /\ "closeConsumer" \in exits[1].called
  /\ "consumer" \notin closed
  /\ {"producer", "client", "healthServer"} \subseteq closed

\* the invocations of exitGracefully that have started step s
startedBy(s) == {i \in 1..Len(exits) : s \in exits[i].called}

\* C38 as stated: exitGracefully is entered at most once in a process, so
\* consumer.close, producer.flush, producer.close and client.close are each
\* invoked at most once
C38_Original ==
  /\ Len(exits) <= 1
  /\ \A s \in {"closeConsumer", "flush", "closeProducer", "closeClient"} :
       Cardinality(startedBy(s)) <= 1

\* the loop is about to start
loopStarts == pc = "receive" /\ received = <<>>

\* C39 as stated: every digest inserted by buildUpCache is in the cache when
\* the loop starts
C39_Original ==
  loopStarts => \A i \in 1..Len(warm.restored) : has(cache, warm.restored[i].value)

\* the k-th message received has a digest that warm-up inserted at most one
\* deduplication window before
restoredInWindow(k) ==
  \E i \in 1..Len(warm.restored) :
    /\ warm.restored[i].value = digestOfId(received[k].id)
    /\ received[k].at - warm.restored[i].time <= ttl

\* C39 (amended): a digest that buildUpCache inserts is timed by the clock at
\* its insertion, not by the publish timestamp of its message; it is in the
\* cache for a deduplication window from then on, so a message with that
\* digest received in that window is not forwarded; it is in the cache when
\* the loop starts unless warm-up inserted another digest more than a
\* window after it
C39_RestoredFromWarmUp ==
  /\ \A i \in 1..Len(warm.restored) :
       /\ warm.restored[i].time >= warm.cutoffTs
       /\ now - warm.restored[i].time <= ttl => has(cache, warm.restored[i].value)
       /\ \A j \in 1..Len(cache) :
            cache[j].value = warm.restored[i].value
            => cache[j].time >= warm.restored[i].time
  /\ \A k \in 1..Len(received) :
       restoredInWindow(k)
       => task[received[k].id] \in {"dupAcking", "dupDone"}
  /\ loopStarts
     => \A i \in 1..Len(warm.restored) :
          (\A j \in 1..Len(warm.restored) :
             warm.restored[j].time - warm.restored[i].time <= ttl)
          => has(cache, warm.restored[i].value)

\* a message received more than a deduplication window after the publish
\* timestamp of the historical message that lists its digest, and less than
\* a window after warm-up inserted the digest, has been acknowledged as a
\* duplicate
C39_Witness ==
  \E k \in 1..Len(received) :
    /\ restoredInWindow(k)
    /\ task[received[k].id] = "dupDone"
    /\ \E n \in 1..Len(dest) :
         /\ dest[n].by = 0
         /\ listedIn(received[k].id, n)
         /\ received[k].at - dest[n].publishTimestamp > ttl

\* the schedule of C40: 500, 1000, 2000, 4000, 5000
schedule == <<500, 1000, 2000, 4000, 5000>>

RECURSIVE total(_)
total(delays) ==
  IF delays = <<>> THEN 0 ELSE Head(delays) + total(Tail(delays))

\* C40: the delay waited after the k-th read error of a warm-up is
\* min(500 * 2^(k-1), 5000) ms, that is 500, 1000, 2000, 4000, 5000; the
\* delays never decrease and never exceed 5000 ms, a delay is waited after
\* every read error, the one that ends warm-up included, and the delays of
\* one warm-up add up to at most 12500 ms
C40_BackoffSchedule ==
  /\ [](/\ Len(warm.backoffs) = warm.nonTimeoutRetries
        /\ Len(warm.backoffs) <= Len(schedule)
        /\ \A k \in 1..Len(warm.backoffs) :
             /\ warm.backoffs[k] = schedule[k]
             /\ warm.backoffs[k] = Min(500 * Pow2(k - 1), 5000)
             /\ warm.backoffs[k] <= 5000
             /\ k > 1 => warm.backoffs[k] >= warm.backoffs[k - 1]
        /\ total(warm.backoffs) <= 12500)
  /\ [][(pc = "read" /\ warm'.nonTimeoutRetries = warm.nonTimeoutRetries + 1)
        => /\ Len(warm'.backoffs) = Len(warm.backoffs) + 1
           /\ now' - now >= warm'.backoffs[Len(warm'.backoffs)]]_vars

\* warm-up has stopped after its fifth read error and its delays add up to
\* 12500 ms
C40_Witness ==
  /\ warm.left = "errors"
  /\ warm.nonTimeoutRetries = MAX_NON_TIMEOUT_RETRIES
  /\ total(warm.backoffs) = 12500
  /\ now - warm.cutoffTs >= 12500
=============================================================================
